---- MODULE Spec2Model ----
(***************************************************************************)
(* A model of open-vending-bench: the agent-driven day cycle               *)
(* (main_simulation.py, agent.py, tools.py), the mailbox and supplier      *)
(* response synthesis (email_system.py), the state log (database.py), the  *)
(* weather chain (weather.py), the backroom storage (storage.py) and the    *)
(* slot grid (vending_machine.py).                                         *)
(*                                                                         *)
(* Simulated time is counted in hours since 00:00 of the day the           *)
(* simulation was constructed; money is counted in whole dollars for the   *)
(* balance and in cents for unit costs.                                    *)
(***************************************************************************)
EXTENDS Integers, Sequences, FiniteSets, TLC

VARIABLES sim, agent, email, db, loop, obs, storage, drv, inp, machine, mdrv

vars == <<sim, agent, email, db, loop, obs, storage, drv, inp, machine, mdrv>>

\* the element of a one-element set; Only({F(v) : v \in {e}}) is F(e) with e
\* evaluated once, however often F uses it
Only(S) == CHOOSE x \in S : TRUE

(***************************************************************************)
(* Bounds of the model                                                     *)
(***************************************************************************)
\* largest action budget handed to start_simulation
MaxBudget == 4
\* most emails the agent sends in one run
MaxSent == 2
\* most calls the storage driver makes on one StorageSystem
MaxCalls == 3
\* largest days_until_delivery and latest day the storage driver schedules on
MaxDays == 2
\* largest action budget of a run with an arbitrary inference collaborator
MaxTurns == 3
\* calls made of the email driver
MaxEmails == 10
\* most calls the vending-machine driver makes on one VendingMachine
MaxSlotCalls == 3
\* largest small quantity (of either sign) handed to stock_item and sell_item,
\* add_items and remove_items
MaxQty == 2
\* most add_items / remove_items calls the driver makes on one StorageSystem
MaxLedgerCalls == 4

(***************************************************************************)
(* Program constants                                                       *)
(***************************************************************************)
STARTING_BALANCE == 500
DAILY_FEE == 2
\* the 06:00 anchor of wait_for_next_day, is_new_day_at_6am, __init__
AnchorHour == 6
HoursPerDay == 24

\* last_6am_time = None
NoTime == -1

(***************************************************************************)
(* Calendar: the date of day 0 is the wall-clock date of construction.     *)
(***************************************************************************)
DaysInMonth(m) ==
    IF m = 2 THEN 28 ELSE IF m \in {4, 6, 9, 11} THEN 30 ELSE 31

\* the dates (month, day of month) the simulation may be constructed on
StartDates == {<<2, 27>>, <<7, 10>>, <<11, 29>>}

DayOf(t) == t \div HoursPerDay

\* datetime.replace(hour=6, minute=0, second=0, microsecond=0)
ReplaceHour6(t) == DayOf(t) * HoursPerDay + AnchorHour

RECURSIVE DateAfter(_, _)
\* the (month, day of month) k days after date d
DateAfter(d, k) ==
    IF k = 0 THEN d
    ELSE IF d[2] < DaysInMonth(d[1]) THEN DateAfter(<<d[1], d[2] + 1>>, k - 1)
    ELSE DateAfter(<<(d[1] % 12) + 1, 1>>, k - 1)

\* current_time.month
MonthOf(s) == DateAfter(s.start_date, DayOf(s.current_time))[1]

(***************************************************************************)
(* weather.py                                                              *)
(***************************************************************************)
WeatherStates == {"sunny", "cloudy", "rainy", "snowy"}

get_season_from_month(month) ==
    IF month \in {12, 1, 2} THEN "winter"
    ELSE IF month \in {3, 4, 5} THEN "spring"
    ELSE IF month \in {6, 7, 8} THEN "summer"
    ELSE "fall"

\* seasonal_base, in percent
seasonal_base(season) ==
    CASE season = "winter" -> [sunny |-> 20, cloudy |-> 40, rainy |-> 20, snowy |-> 20]
      [] season = "spring" -> [sunny |-> 40, cloudy |-> 30, rainy |-> 30, snowy |-> 0]
      [] season = "summer" -> [sunny |-> 60, cloudy |-> 20, rainy |-> 20, snowy |-> 0]
      [] OTHER -> [sunny |-> 30, cloudy |-> 40, rainy |-> 30, snowy |-> 0]

\* the unnormalised weights, times 1000: base * (1 - 0.3), plus 0.3 for the
\* previous weather (normalising divides all by the same positive total)
get_weather_probabilities(season, previous_weather) ==
    [w \in WeatherStates |->
        IF previous_weather \in WeatherStates
        THEN seasonal_base(season)[w] * 7 + (IF w = previous_weather THEN 300 ELSE 0)
        ELSE seasonal_base(season)[w] * 10]

generate_next_weather_AnyState(month, previous_weather) == WeatherStates

\* random.choices(states, weights): every state of positive weight
generate_next_weather(month, previous_weather) ==
    {w \in WeatherStates :
        get_weather_probabilities(get_season_from_month(month), previous_weather)[w] > 0}

(***************************************************************************)
(* Text: subjects are sequences of characters, so that startswith and      *)
(* substring tests are computed as Python computes them.                   *)
(***************************************************************************)
StartsWith(s, p) == Len(s) >= Len(p) /\ SubSeq(s, 1, Len(p)) = p

\* Python's  a in b  on strings
IsSubstring(a, b) ==
    \E i \in 0..(Len(b) - Len(a)) : SubSeq(b, i + 1, i + Len(a)) = a

RePrefixCheck == <<"R", "e", ":">>
RePrefix == <<"R", "e", ":", " ">>

\* the subjects the agent may give an email
Subjects == {<<"a">>, <<"a", "b">>}
Recipients == {"supplier@vendcorp.com"}
AGENT_EMAIL == "vending.operator@business.com"
\* the field width of the id number
IdWidth == 3

(***************************************************************************)
(* email_system.py                                                         *)
(***************************************************************************)
\* EmailSystem.__init__
EmailSystemInit ==
    [inbox |-> <<>>, outbox |-> <<>>, email_counter |-> 0]

RECURSIVE Digits(_)
\* the decimal digits of n >= 0, most significant first
Digits(n) == IF n < 10 THEN <<n>> ELSE Digits(n \div 10) \o <<n % 10>>

\* Python's  {n:03d}: the digits of n, zero-filled on the left to width 3
\* (wider numbers keep all their digits)
ZeroFill3(n) ==
    LET d == Digits(n) IN
    [i \in 1..(IdWidth - Len(d)) |-> 0] \o d

\* f"sent_{n:03d}" / f"recv_{n:03d}": the prefix and the digit text
FormatId(kind, n) == [prefix |-> kind, digits |-> ZeroFill3(n)]

RECURSIVE DigitsValue(_)
\* the number a digit text reads as
DigitsValue(d) ==
    IF Len(d) = 0 THEN 0
    ELSE 10 * DigitsValue(SubSeq(d, 1, Len(d) - 1)) + d[Len(d)]

\* the numeric suffix of an id
IdNumber(id) == DigitsValue(id.digits)

\* Email.__init__ plus the id the EmailSystem assigns
Email(kind, n, sender, recipient, subject, body, email_type) ==
    [id |-> FormatId(kind, n), sender |-> sender, recipient |-> recipient,
     subject |-> subject, body |-> body, email_type |-> email_type, read |-> FALSE]

\* EmailSystem.send_email: returns the new mailbox state; the id is the last
\* outbox email's
EmailSend(em, recipient, subject, body, email_type) ==
    [em EXCEPT !.email_counter = @ + 1,
               !.outbox = Append(@, Email("sent", em.email_counter + 1, AGENT_EMAIL,
                                          recipient, subject, body, email_type))]

EmailReceive_NoCount(em, sender, subject, body, email_type) ==
    [em EXCEPT !.inbox = Append(@, Email("recv", em.email_counter + 1, sender,
                                         AGENT_EMAIL, subject, body, email_type))]

\* EmailSystem.receive_email
EmailReceive(em, sender, subject, body, email_type) ==
    [em EXCEPT !.email_counter = @ + 1,
               !.inbox = Append(@, Email("recv", em.email_counter + 1, sender,
                                         AGENT_EMAIL, subject, body, email_type))]

get_unread_emails_WholeInbox(em) == em.inbox

\* EmailSystem.get_unread_emails
get_unread_emails(em) == SelectSeq(em.inbox, LAMBDA e : ~e.read)

mark_all_read_Purge(em) == [em EXCEPT !.inbox = SelectSeq(@, LAMBDA e : e.read)]

\* EmailSystem.mark_all_read
mark_all_read(em) ==
    [em EXCEPT !.inbox = [i \in 1..Len(em.inbox) |-> [em.inbox[i] EXCEPT !.read = TRUE]]]

\* what a tool hands back: kind names the message, blocks the email blocks
\* of a read_email result
ToolResult(kind, blocks) == [kind |-> kind, blocks |-> blocks]
NO_UNREAD == ToolResult("No unread emails.", <<>>)

\* formatted blocks joined by the ---- separator: the blocks, in order, each
\* named by its email's id
FormatBlocks(unread) == [i \in 1..Len(unread) |-> unread[i].id]

get_unread_emails_for_agent_NoMark(em) ==
    LET unread == get_unread_emails(em) IN
    IF Len(unread) = 0 THEN [email |-> em, result |-> NO_UNREAD]
    ELSE [email |-> em, result |-> ToolResult("emails", FormatBlocks(unread))]

\* EmailSystem.get_unread_emails_for_agent
get_unread_emails_for_agent(em) ==
    LET unread == get_unread_emails(em) IN
    IF Len(unread) = 0 THEN [email |-> em, result |-> NO_UNREAD]
    ELSE [email |-> mark_all_read(em), result |-> ToolResult("emails", FormatBlocks(unread))]

(***************************************************************************)
(* storage.py.  A StorageSystem is [items, pending_deliveries]; items is    *)
(* the dict name -> record, avg_unit_cost an exact fraction <<cents, den>>. *)
(***************************************************************************)
RECURSIVE GCD(_, _)
GCD(a, b) == IF b = 0 THEN a ELSE GCD(b, a % b)

Abs(x) == IF x < 0 THEN -x ELSE x

\* the fraction n/d in lowest terms, d > 0
Frac(n, d) ==
    LET g == GCD(Abs(n), Abs(d))
        sgn == IF d < 0 THEN -1 ELSE 1
    IN  IF g = 0 THEN <<0, 1>> ELSE <<sgn * (n \div g), sgn * (d \div g)>>

\* StorageSystem.__init__
StorageSystemInit ==
    [items |-> <<>>, pending_deliveries |-> <<>>]

\* vending_machine.Item
Item(name, size, price, cost) ==
    [name |-> name, size |-> size, price |-> price, cost |-> cost]

\* dict assignment d[k] = v
DictPut(d, k, v) == [x \in (DOMAIN d) \cup {k} |-> IF x = k THEN v ELSE d[x]]

\* del d[k]
DictDel(d, k) == [x \in (DOMAIN d) \ {k} |-> d[x]]

\* StorageSystem.add_items: the new storage and the returned batch cost
add_items(st, name, size, quantity, unit_cost) ==
    LET record == IF name \in DOMAIN st.items THEN st.items[name]
                  ELSE [item |-> Item(name, size, 0, Frac(unit_cost, 1)),
                        quantity |-> 0, avg_unit_cost |-> Frac(0, 1)]
        total_qty == record.quantity + quantity
        avg == IF total_qty > 0
               THEN Frac(record.avg_unit_cost[1] * record.quantity
                           + unit_cost * quantity * record.avg_unit_cost[2],
                         record.avg_unit_cost[2] * total_qty)
               ELSE record.avg_unit_cost
        updated == [item |-> [record.item EXCEPT !.cost = avg],
                    quantity |-> total_qty, avg_unit_cost |-> avg]
    IN  [storage |-> [st EXCEPT !.items = DictPut(st.items, name, updated)],
         ret |-> unit_cost * quantity]

remove_items_KeepEmptyRecord(st, name, quantity) ==
    IF name \notin DOMAIN st.items THEN [storage |-> st, ret |-> FALSE]
    ELSE IF st.items[name].quantity < quantity THEN [storage |-> st, ret |-> FALSE]
    ELSE [storage |-> [st EXCEPT !.items[name].quantity = @ - quantity], ret |-> TRUE]

\* StorageSystem.remove_items
remove_items(st, name, quantity) ==
    IF name \notin DOMAIN st.items THEN [storage |-> st, ret |-> FALSE]
    ELSE IF st.items[name].quantity < quantity THEN [storage |-> st, ret |-> FALSE]
    ELSE LET left == st.items[name].quantity - quantity IN
         [storage |-> [st EXCEPT !.items =
                          IF left = 0 THEN DictDel(st.items, name)
                          ELSE [st.items EXCEPT ![name].quantity = left]],
          ret |-> TRUE]

schedule_delivery_DayLate(st, current_time, items, days_until_delivery, supplier, reference) ==
    LET arrival == ReplaceHour6(current_time) + (days_until_delivery + 1) * HoursPerDay IN
    [storage |-> [st EXCEPT !.pending_deliveries =
                     Append(@, [arrival_time |-> arrival, supplier |-> supplier,
                                items |-> items, reference |-> reference])],
     ret |-> arrival]

\* StorageSystem.schedule_delivery: the new storage and the returned arrival
schedule_delivery(st, current_time, items, days_until_delivery, supplier, reference) ==
    LET arrival == ReplaceHour6(current_time) + days_until_delivery * HoursPerDay IN
    [storage |-> [st EXCEPT !.pending_deliveries =
                     Append(@, [arrival_time |-> arrival, supplier |-> supplier,
                                items |-> items, reference |-> reference])],
     ret |-> arrival]

RECURSIVE AddLineItems(_, _, _, _)
\* the loop over one delivery's line items (process_arrivals, inner for):
\* the storage after line i.. and the delivery's cost
AddLineItems(st, lines, i, cost) ==
    IF i > Len(lines) THEN [storage |-> st, cost |-> cost]
    ELSE LET item == lines[i] IN
         IF item.quantity <= 0 \/ item.name = ""
         THEN AddLineItems(st, lines, i + 1, cost)
         ELSE LET r == add_items(st, item.name, item.size, item.quantity, item.unit_cost)
              IN  AddLineItems(r.storage, lines, i + 1, cost + r.ret)

RECURSIVE ArrivalsLoop(_, _, _, _)
\* the loop over pending_deliveries (process_arrivals, outer for); acc is
\* [storage, remaining, total_cost, notices]
ArrivalsLoop(pending, i, current_time, acc) ==
    IF i > Len(pending) THEN acc
    ELSE LET delivery == pending[i] IN
         IF delivery.arrival_time <= current_time
         THEN LET r == AddLineItems(acc.storage, delivery.items, 1, 0) IN
              ArrivalsLoop(pending, i + 1, current_time,
                  [acc EXCEPT !.storage = r.storage,
                              !.total_cost = @ + r.cost,
                              !.notices = Append(@, [supplier |-> delivery.supplier,
                                                     reference |-> delivery.reference,
                                                     arrival_time |-> delivery.arrival_time,
                                                     billed |-> r.cost])])
         ELSE ArrivalsLoop(pending, i + 1, current_time,
                  [acc EXCEPT !.remaining = Append(@, delivery)])

process_arrivals_ClearsPending(st, current_time) ==
    IF Len(st.pending_deliveries) = 0
    THEN [storage |-> st, ret |-> 0, notices |-> <<>>]
    ELSE LET acc == ArrivalsLoop(st.pending_deliveries, 1, current_time,
                        [storage |-> st, remaining |-> <<>>, total_cost |-> 0,
                         notices |-> <<>>])
         IN  [storage |-> [acc.storage EXCEPT !.pending_deliveries = <<>>],
              ret |-> acc.total_cost, notices |-> acc.notices]

process_arrivals_KeepsDelivered(st, current_time) ==
    IF Len(st.pending_deliveries) = 0
    THEN [storage |-> st, ret |-> 0, notices |-> <<>>]
    ELSE LET acc == ArrivalsLoop(st.pending_deliveries, 1, current_time,
                        [storage |-> st, remaining |-> <<>>, total_cost |-> 0,
                         notices |-> <<>>])
         IN  [storage |-> acc.storage, ret |-> acc.total_cost, notices |-> acc.notices]

\* StorageSystem.process_arrivals: the new storage, the returned total cost
\* and the on_arrival callback's invocations, in order
process_arrivals(st, current_time) ==
    IF Len(st.pending_deliveries) = 0
    THEN [storage |-> st, ret |-> 0, notices |-> <<>>]
    ELSE LET acc == ArrivalsLoop(st.pending_deliveries, 1, current_time,
                        [storage |-> st, remaining |-> <<>>, total_cost |-> 0,
                         notices |-> <<>>])
         IN  [storage |-> [acc.storage EXCEPT !.pending_deliveries = acc.remaining],
              ret |-> acc.total_cost, notices |-> acc.notices]

(***************************************************************************)
(* vending_machine.py.  A VendingMachine is [slots]: a function from slot  *)
(* ids to slots [item, quantity, max_capacity, size_type].  An Item is     *)
(* [name, size]; its price and cost play no part in placement.             *)
(***************************************************************************)
\* rows and slots per row of the grid, and max items per slot
GridRows == 4
GridSlots == 3
MAX_CAPACITY == 10

\* self.slots[...]['item'] = None
NoItem == [name |-> "None", size |-> "None", price |-> 0]

\* f"{row}-{slot}": the digit texts of row and slot
SlotId(row, slot) == [row |-> Digits(row), slot |-> Digits(slot)]

\* the keys of self.slots
SlotIds == {SlotId(row, slot) : row \in 0..(GridRows - 1), slot \in 0..(GridSlots - 1)}

\* 'small' if row < 2 else 'large'
SizeTypeOfRow(row) == IF row < 2 THEN "small" ELSE "large"

\* VendingMachine.__init__
VendingMachineInit ==
    [slots |-> [id \in SlotIds |->
                  [item |-> NoItem, quantity |-> 0, max_capacity |-> MAX_CAPACITY,
                   size_type |-> SizeTypeOfRow(DigitsValue(id.row))]]]

\* VendingMachine.can_stock_item
can_stock_item(vm, slot_id, item) ==
    IF slot_id \notin DOMAIN vm.slots THEN FALSE
    ELSE IF vm.slots[slot_id].size_type # item.size THEN FALSE
    ELSE vm.slots[slot_id].item = NoItem \/ vm.slots[slot_id].item.name = item.name

stock_item_FullIsTooMuch(vm, slot_id, item, quantity) ==
    IF ~can_stock_item(vm, slot_id, item) THEN [vm |-> vm, ret |-> "False"]
    ELSE IF vm.slots[slot_id].quantity + quantity >= vm.slots[slot_id].max_capacity
    THEN [vm |-> vm, ret |-> "False"]
    ELSE [vm |-> [vm EXCEPT !.slots[slot_id].item = item,
                            !.slots[slot_id].quantity = @ + quantity],
          ret |-> "True"]

\* VendingMachine.stock_item: the machine after the call and the value
\* returned
stock_item(vm, slot_id, item, quantity) ==
    IF ~can_stock_item(vm, slot_id, item) THEN [vm |-> vm, ret |-> "False"]
    ELSE IF vm.slots[slot_id].quantity + quantity > vm.slots[slot_id].max_capacity
    THEN [vm |-> vm, ret |-> "False"]
    ELSE [vm |-> [vm EXCEPT !.slots[slot_id].item = item,
                            !.slots[slot_id].quantity = @ + quantity],
          ret |-> "True"]

Min2_NoClamp(a, b) == a

\* Python's min
Min2(a, b) == IF a <= b THEN a ELSE b

\* the tail of sell_item: remove actual_quantity, clear the item of a slot
\* left at quantity 0, return (item, actual_quantity)
RemoveSold(vm, slot_id, actual_quantity) ==
    [vm |-> [vm EXCEPT !.slots[slot_id].quantity = @ - actual_quantity,
                       !.slots[slot_id].item =
                           IF vm.slots[slot_id].quantity - actual_quantity = 0
                           THEN NoItem ELSE @],
     ret |-> "sold", item |-> vm.slots[slot_id].item, sold |-> actual_quantity]

\* VendingMachine.sell_item: the machine after the call and the value
\* returned (None, or the item and the quantity sold)
sell_item(vm, slot_id, quantity) ==
    IF slot_id \notin DOMAIN vm.slots
    THEN [vm |-> vm, ret |-> "None", item |-> NoItem, sold |-> 0]
    ELSE IF vm.slots[slot_id].quantity <= 0 \/ vm.slots[slot_id].item = NoItem
    THEN [vm |-> vm, ret |-> "None", item |-> NoItem, sold |-> 0]
    ELSE RemoveSold(vm, slot_id, Min2(quantity, vm.slots[slot_id].quantity))

(***************************************************************************)
(* database.py                                                             *)
(***************************************************************************)
\* SimulationDatabase.log_state: INSERT into a table whose PRIMARY KEY is
\* (timestamp, simulation_id); a second row with the timestamp of an
\* earlier row of this simulation raises sqlite3.IntegrityError
log_state(rows, timestamp, balance) ==
    IF \E i \in 1..Len(rows) : rows[i].timestamp = timestamp
    THEN [rows |-> rows, raised |-> TRUE]
    ELSE [rows |-> Append(rows, [timestamp |-> timestamp, balance |-> balance]),
          raised |-> FALSE]

(***************************************************************************)
(* tools.py: the supplier tool surface                                     *)
(***************************************************************************)
\* simulation_ref.storage: VendingMachineSimulation.__init__ assigns no
\* storage attribute, so reading it raises AttributeError
HasStorageAttr(s) == s.has_storage

\* the line items a supplier ships
OrderItems ==
    {<<[name |-> "cola", size |-> "small", quantity |-> 20, unit_cost |-> 100]>>}

\* supplier_schedule_delivery
supplier_schedule_delivery(s, days_until_delivery, supplier, reference, items) ==
    IF ~HasStorageAttr(s) THEN [sim |-> s, raised |-> TRUE]
    ELSE [sim |-> [s EXCEPT !.storage =
                      schedule_delivery(s.storage, s.current_time, items,
                                        days_until_delivery, supplier, reference).storage],
          raised |-> FALSE]

\* execute_supplier_tool: the message is the tool's or the error's text;
\* raised when json.loads rejects the arguments text (outside its try)
execute_supplier_tool(tool_call, s) ==
    IF tool_call.args = "not_json"
    THEN [sim |-> s, success |-> FALSE, message |-> "", raised |-> TRUE]
    ELSE IF tool_call.name = "schedule_delivery"
    THEN LET r == supplier_schedule_delivery(s, tool_call.days_until_delivery,
                      tool_call.supplier, tool_call.reference, tool_call.items)
         IN  IF r.raised
             THEN [sim |-> s, success |-> FALSE, message |-> "Supplier tool error",
                   raised |-> FALSE]
             ELSE [sim |-> r.sim, success |-> TRUE,
                   message |-> "Supplier tool: Delivery scheduled", raised |-> FALSE]
    ELSE [sim |-> s, success |-> FALSE, message |-> "Supplier tool error: Unknown tool",
          raised |-> FALSE]

(***************************************************************************)
(* model_client.py                                                         *)
(***************************************************************************)
LITELLM_ERROR == "Error: LiteLLM request failed"

call_model_litellm_KeepLast(completion) ==
    IF completion.raised
    THEN [content |-> LITELLM_ERROR, tool_calls |-> <<>>]
    ELSE [content |-> completion.content,
          tool_calls |-> IF Len(completion.tool_calls) > 1
                         THEN <<completion.tool_calls[Len(completion.tool_calls)]>>
                         ELSE completion.tool_calls]

\* call_model_litellm on what litellm.completion did: a raised exception
\* becomes the error-shaped result, several tool calls are cut to the first
call_model_litellm(completion) ==
    IF completion.raised
    THEN [content |-> LITELLM_ERROR, tool_calls |-> <<>>]
    ELSE [content |-> completion.content,
          tool_calls |-> IF Len(completion.tool_calls) > 1
                         THEN <<completion.tool_calls[1]>>
                         ELSE completion.tool_calls]

\* call_model: the result of call_model_litellm
call_model(completion) == call_model_litellm(completion)

(***************************************************************************)
(* email_system.py: supplier-response synthesis                            *)
(***************************************************************************)
\* a schedule_delivery call of the supplier model; args tells whether its
\* arguments text is valid JSON
SupplierCall(items, args) ==
    [name |-> "schedule_delivery", args |-> args, days_until_delivery |-> 1,
     supplier |-> "VendCorp", reference |-> "PO-1", items |-> items]

\* what litellm.completion may do when called with SUPPLIER_TOOLS: raise,
\* answer with text alone, or with text and a schedule_delivery call
SupplierCompletions ==
    {[raised |-> TRUE, content |-> "", tool_calls |-> <<>>],
     [raised |-> FALSE, content |-> "reply", tool_calls |-> <<>>]}
    \cup {[raised |-> FALSE, content |-> "reply", tool_calls |-> <<SupplierCall(its, a)>>] :
            its \in OrderItems, a \in {"valid", "not_json"}}

\* the reply body of the except branch
ACK_FALLBACK ==
    [text |-> "We acknowledge your inquiry and will follow up shortly.", tool_msg |-> ""]

HasResponse_NeverSkips(em, sent_email) == FALSE

\* the skip test of generate_supplier_responses
HasResponse(em, sent_email) ==
    \E i \in 1..Len(em.inbox) :
        /\ StartsWith(em.inbox[i].subject, RePrefixCheck)
        /\ IsSubstring(sent_email.subject, em.inbox[i].subject)

RECURSIVE ResponsesLoop(_, _, _, _)
\* the loop over the outbox copy; w is [sim, email, calls, replies, log].
\* calls records, for each supplier tool call, its items, whether it
\* succeeded and whether the simulation holds a pending delivery with those
\* items when the reply is appended; log records, for each reply, whether
\* the inference call failed, the body appended and the id of the sent email
\* it answers
ResponsesLoop(recent_sent, i, plan, w) ==
    IF i > Len(recent_sent) THEN w
    ELSE LET sent_email == recent_sent[i] IN
         IF HasResponse(w.email, sent_email)
         THEN ResponsesLoop(recent_sent, i + 1, plan, w)
         ELSE LET response == call_model(plan[i])
                  called == Len(response.tool_calls) > 0
                  tr == IF called THEN execute_supplier_tool(response.tool_calls[1], w.sim)
                        ELSE [sim |-> w.sim, success |-> FALSE, message |-> "",
                              raised |-> FALSE]
                  body == IF tr.raised THEN ACK_FALLBACK
                          ELSE [text |-> response.content, tool_msg |-> tr.message]
                  em2 == EmailReceive(w.email, sent_email.recipient,
                                      RePrefix \o sent_email.subject, body, "response")
                  call == [items |-> response.tool_calls[1].items,
                           success |-> tr.success,
                           pending_at_reply |->
                               /\ HasStorageAttr(tr.sim)
                               /\ \E k \in 1..Len(tr.sim.storage.pending_deliveries) :
                                     tr.sim.storage.pending_deliveries[k].items
                                         = response.tool_calls[1].items]
              IN  Only({ResponsesLoop(recent_sent, i + 1, plan, w2) : w2 \in
                      {[sim |-> tr.sim, email |-> em2,
                        calls |-> IF called THEN Append(w.calls, call) ELSE w.calls,
                        replies |-> w.replies + 1,
                        log |-> Append(w.log, [failed |-> plan[i].raised, body |-> body,
                                               sent |-> sent_email.id])]}})

\* EmailSystem.generate_supplier_responses
generate_supplier_responses(s, em, plan) ==
    ResponsesLoop(em.outbox, 1, plan,
                  [sim |-> s, email |-> em, calls |-> <<>>, replies |-> 0, log |-> <<>>])

(***************************************************************************)
(* main_simulation.py: the rollover                                        *)
(***************************************************************************)
NoReport ==
    [shown |-> FALSE, balance |-> 0, days_passed |-> 0, weather |-> "", unread |-> 0,
     message_count |-> 0]

\* VendingMachineSimulation.get_day_report: the values the report prints
get_day_report(s, em) ==
    [shown |-> TRUE, balance |-> s.balance, days_passed |-> s.days_passed,
     weather |-> s.current_weather, unread |-> Len(get_unread_emails(em)),
     message_count |-> s.message_count]

ChargesFee_FirstActionToo(s) == s.message_count > 0

\* the fee test of handle_new_day: not on the first action
ChargesFee(s) == s.message_count > 1

\* the value handle_new_day hands back: the state after synthesis g, the
\* report, and the calls the rollover made, in order
RolloverResult(g, report, charged) ==
    [sim |-> g.sim, email |-> g.email, report |-> report,
     fees |-> IF charged THEN 1 ELSE 0,
     calls |-> g.calls, replies |-> g.replies, reply_log |-> g.log,
     steps |-> (IF charged THEN <<"fee">> ELSE <<>>)
                 \o <<"generate_next_weather", "generate_supplier_responses",
                      "get_day_report">>]

\* the tail of handle_new_day: get_day_report on the state synthesis left
ReportAfter(g, charged) == RolloverResult(g, get_day_report(g.sim, g.email), charged)

FeeAndWeather_DayOnly(s, next_weather) ==
    [(IF ChargesFee(s) THEN [s EXCEPT !.days_passed = @ + 1] ELSE s)
        EXCEPT !.current_weather = next_weather]

\* the fee and weather steps of handle_new_day
FeeAndWeather(s, next_weather) ==
    [(IF ChargesFee(s)
      THEN [s EXCEPT !.days_passed = @ + 1, !.balance = @ - DAILY_FEE]
      ELSE s) EXCEPT !.current_weather = next_weather]

handle_new_day_ReportFirst(s, em, next_weather, plan) ==
    RolloverResult(generate_supplier_responses(FeeAndWeather(s, next_weather), em, plan),
                   get_day_report(s, em), ChargesFee(s))

\* VendingMachineSimulation.handle_new_day; next_weather is the draw of
\* generate_next_weather, plan the supplier model's answers
handle_new_day(s, em, next_weather, plan) ==
    Only({ReportAfter(g, ChargesFee(s)) : g \in
             {generate_supplier_responses(FeeAndWeather(s, next_weather), em, plan)}})

(***************************************************************************)
(* tools.py: the agent tool surface                                        *)
(***************************************************************************)
wait_for_next_day_ChargesFee(s) ==
    LET next_6am == (DayOf(s.current_time) + 1) * HoursPerDay + AnchorHour IN
    [sim |-> [s EXCEPT !.current_time = next_6am, !.days_passed = @ + 1,
                       !.balance = @ - DAILY_FEE],
     result |-> ToolResult("Moved day forward", <<>>)]

\* wait_for_next_day
wait_for_next_day(s) ==
    LET next_6am == (DayOf(s.current_time) + 1) * HoursPerDay + AnchorHour IN
    [sim |-> [s EXCEPT !.current_time = next_6am],
     result |-> ToolResult("Moved day forward", <<>>)]

\* send_email
send_email(em, recipient, subject, body) ==
    LET em2 == EmailSend(em, recipient, subject, body, "order") IN
    [email |-> em2, result |-> ToolResult("Email sent", <<em2.outbox[Len(em2.outbox)].id>>)]

\* read_email
read_email(em) == get_unread_emails_for_agent(em)

\* TOOLS_FUNCTIONS[function_name](simulation_ref, **arguments)
RunToolFunction(tool_call, s, em) ==
    CASE tool_call.name = "wait_for_next_day" ->
            LET r == wait_for_next_day(s) IN
            [sim |-> r.sim, email |-> em, success |-> TRUE, result |-> r.result]
      [] tool_call.name = "send_email" ->
            LET r == send_email(em, tool_call.recipient, tool_call.subject, tool_call.body) IN
            [sim |-> s, email |-> r.email, success |-> TRUE, result |-> r.result]
      [] tool_call.name = "read_email" ->
            LET r == read_email(em) IN
            [sim |-> s, email |-> r.email, success |-> TRUE, result |-> r.result]
      [] tool_call.name = "check_storage_quantities" ->
            IF HasStorageAttr(s)
            THEN [sim |-> s, email |-> em, success |-> TRUE,
                  result |-> ToolResult("storage report", <<>>)]
            ELSE [sim |-> s, email |-> em, success |-> FALSE,
                  result |-> ToolResult("Tool execution failed", <<>>)]

\* the names of TOOLS_FUNCTIONS
TOOLS_FUNCTIONS ==
    {"wait_for_next_day", "send_email", "read_email", "check_storage_quantities"}

\* execute_tool: the simulation and mailbox after the call, success, and the
\* result (or error) annotated onto the response.  json.loads on the
\* arguments text runs before the try and raises to the caller; a call whose
\* argument names do not fit the function fails inside the try
execute_tool(tool_call, s, em) ==
    IF tool_call.args = "not_json"
    THEN [sim |-> s, email |-> em, success |-> FALSE,
          result |-> ToolResult("", <<>>), raised |-> TRUE]
    ELSE IF tool_call.name \in TOOLS_FUNCTIONS
    THEN IF tool_call.args = "bad_names"
         THEN [sim |-> s, email |-> em, success |-> FALSE,
               result |-> ToolResult("Tool execution failed", <<>>), raised |-> FALSE]
         ELSE RunToolFunction(tool_call, s, em) @@ [raised |-> FALSE]
    ELSE [sim |-> s, email |-> em, success |-> FALSE,
          result |-> ToolResult("Unknown tool", <<>>), raised |-> FALSE]

(***************************************************************************)
(* agent.py                                                                *)
(***************************************************************************)
is_new_day_at_6am_NoDayGap(last_6am_time, current_time) ==
    LET current_6am == ReplaceHour6(current_time) IN
    IF last_6am_time = NoTime
    THEN [ret |-> current_time >= current_6am, last_6am_time |-> current_6am]
    ELSE IF current_time >= last_6am_time
    THEN [ret |-> TRUE, last_6am_time |-> current_6am + HoursPerDay]
    ELSE [ret |-> FALSE, last_6am_time |-> last_6am_time]

\* VendingMachineAgent.is_new_day_at_6am: the answer and the new
\* last_6am_time
is_new_day_at_6am(last_6am_time, current_time) ==
    LET current_6am == ReplaceHour6(current_time) IN
    IF last_6am_time = NoTime
    THEN [ret |-> current_time >= current_6am, last_6am_time |-> current_6am]
    ELSE IF current_time >= last_6am_time + HoursPerDay
    THEN [ret |-> TRUE, last_6am_time |-> current_6am + HoursPerDay]
    ELSE [ret |-> FALSE, last_6am_time |-> last_6am_time]

NoTool == [name |-> "none"]

\* a content of None (the message carries no text)
NoneContent == "None"

\* the well-formed tool calls the model may return with the agent tool schema
ValidToolCalls(em) ==
    {[name |-> n, args |-> "valid"] :
        n \in {"wait_for_next_day", "read_email", "check_storage_quantities"}}
    \cup {[name |-> "send_email", args |-> "valid", recipient |-> r, subject |-> sj,
           body |-> [text |-> "order", tool_msg |-> ""]] :
            r \in (IF Len(em.outbox) < MaxSent THEN Recipients ELSE {}), sj \in Subjects}

\* the tool calls the model may return: well formed, naming a tool outside
\* TOOLS_LIST, with an arguments text that is not JSON, or with argument
\* names the function does not take
AgentToolCalls(em) ==
    ValidToolCalls(em)
    \cup {[name |-> "fly_drone", args |-> "valid"]}
    \cup {[name |-> n, args |-> a] :
            n \in {"wait_for_next_day", "send_email", "read_email"},
            a \in {"not_json", "bad_names"}}

\* the calls that follow the first one when the model returns several
LaterToolCalls ==
    {[name |-> n, args |-> "valid"] : n \in {"wait_for_next_day", "read_email"}}

\* what litellm.completion does for a model that keeps to the tool schema:
\* text, and no tool call or one well-formed call
SchemaCompletions(em) ==
    {[raised |-> FALSE, content |-> "text", tool_calls |-> <<>>]}
    \cup {[raised |-> FALSE, content |-> "text", tool_calls |-> <<c>>] :
            c \in ValidToolCalls(em)}

\* what litellm.completion may do when called with TOOLS_LIST: raise, or
\* answer with a content (text, empty or None) and zero, one or several
\* tool calls
AgentCompletions(em) ==
    {[raised |-> TRUE, content |-> "", tool_calls |-> <<>>]}
    \cup {[raised |-> FALSE, content |-> c, tool_calls |-> <<>>] :
            c \in {"text", "", NoneContent}}
    \cup {[raised |-> FALSE, content |-> "text", tool_calls |-> <<c>>] :
            c \in AgentToolCalls(em)}
    \cup {[raised |-> FALSE, content |-> NoneContent, tool_calls |-> <<c>>] :
            c \in {[name |-> n, args |-> "valid"] : n \in {"read_email", "fly_drone"}}}
    \cup {[raised |-> FALSE, content |-> "text", tool_calls |-> <<c, c2>>] :
            c \in {[name |-> n, args |-> "valid"] :
                      n \in {"wait_for_next_day", "read_email", "fly_drone"}},
            c2 \in LaterToolCalls}

\* the rollover part of run_agent's value when no rollover ran
NoRollover(s, em) ==
    [sim |-> s, email |-> em, report |-> NoReport, fees |-> 0,
     calls |-> <<>>, replies |-> 0, reply_log |-> <<>>, steps |-> <<>>]

\* response_text += tool_result["message"]: a TypeError when the content is
\* None; executed counts the tool functions run
AppendToolMessage(x, model_result) ==
    [sim |-> x.sim, email |-> x.email, success |-> x.success, result |-> x.result,
     tool |-> model_result.tool_calls[1].name,
     agent_raised |-> x.raised \/ model_result.content = NoneContent,
     executed |-> IF x.raised THEN 0 ELSE 1]

\* the tool part of run_agent: at most one tool, the first of tool_calls
RunTool(model_result, s, em) ==
    IF Len(model_result.tool_calls) > 0
    THEN Only({AppendToolMessage(x, model_result) : x \in
                  {execute_tool(model_result.tool_calls[1], s, em)}})
    ELSE [sim |-> s, email |-> em, success |-> TRUE,
          result |-> ToolResult("", <<>>), tool |-> NoTool.name,
          agent_raised |-> FALSE, executed |-> 0]

\* run_agent after the rollover h: the model call and the tool
AfterRollover(h, completion) ==
    RunTool(call_model(completion), h.sim, h.email) @@ [rollover |-> h]

\* conversation_history after run_agent: the user entry is appended before
\* the model call, the assistant entry after the tool, when nothing raised.
\* An entry is modelled by its role
HistoryAfter(conversation_history, raised) ==
    IF raised THEN Append(conversation_history, "user")
    ELSE conversation_history \o <<"user", "assistant">>

\* VendingMachineAgent.run_agent: rollover when is_new_day_at_6am says so,
\* then the user entry, the model call, at most one tool, and the assistant
\* entry
agent_run_agent(s, ag, em, completion, next_weather, plan) ==
    LET nd == is_new_day_at_6am(ag.last_6am_time, s.current_time) IN
    Only({a @@ [agent |-> [ag EXCEPT
                              !.last_6am_time = nd.last_6am_time,
                              !.conversation_history = HistoryAfter(@, a.agent_raised)],
                rolled |-> nd.ret] : a \in
             {Only({AfterRollover(h, completion) : h \in
                       {IF nd.ret THEN handle_new_day(s, em, next_weather, plan)
                        ELSE NoRollover(s, em)}})}})

(***************************************************************************)
(* main_simulation.py: construction and the action loop                    *)
(***************************************************************************)
\* the log_state call of run_agent, made when the agent returned and
\* store_state is set (it may raise)
LogAfter(a, rows) ==
    a @@ (IF a.agent_raised THEN [rows |-> rows, raised |-> TRUE]
          ELSE IF a.sim.store_state
          THEN log_state(rows, a.sim.current_time, a.sim.balance)
          ELSE [rows |-> rows, raised |-> FALSE])

\* VendingMachineSimulation.run_agent: count the action, run the agent, log
\* the state
sim_run_agent(s, ag, em, rows, completion, next_weather, plan) ==
    Only({LogAfter(a, rows) : a \in
             {agent_run_agent([s EXCEPT !.message_count = @ + 1], ag, em,
                              completion, next_weather, plan)}})

\* VendingMachineSimulation.__init__ on start_date, before its log_state call
SimInit(start_date, store_state) ==
    [balance |-> STARTING_BALANCE, current_time |-> AnchorHour,
     message_count |-> 0, days_passed |-> 0, current_weather |-> "sunny",
     store_state |-> store_state, start_date |-> start_date,
     has_storage |-> FALSE, storage |-> StorageSystemInit]

\* VendingMachineAgent.__init__
AgentInit == [last_6am_time |-> NoTime, conversation_history |-> <<>>]

\* what the last agent action did (history, for stating the claims)
ObsInit ==
    [n |-> 0, time_at_start |-> NoTime, prev_tool |-> "start", tool |-> "start",
     rolled |-> FALSE, fees |-> 0, weather_draws |-> 0, steps |-> <<>>,
     balance_before |-> STARTING_BALANCE, days_before |-> 0, unread_before |-> 0,
     inbox_before |-> 0, weather_before |-> "sunny", weather_drawn |-> "sunny",
     replies |-> 0, supplier_calls |-> <<>>, reply_log |-> <<>>, report |-> NoReport,
     result |-> ToolResult("", <<>>), prev_result |-> ToolResult("", <<>>),
     success |-> TRUE, raised |-> FALSE, agent_raised |-> FALSE, executed |-> 0,
     roll_count |-> 0, roll_time_before |-> NoTime, last_roll_time |-> NoTime,
     rolls_since_advance |-> 0, waits |-> 0,
     before_tool |-> [sim |-> <<>>, email |-> EmailSystemInit]]

\* what the collaborators answered in the last pass of the loop (history):
\* the agent model's completion, the weather draw, the supplier model's
\* completions
InpInit ==
    [completion |-> [raised |-> FALSE, content |-> "", tool_calls |-> <<>>],
     next_weather |-> "sunny", plan |-> <<>>]

\* the storage driver's last call (history, for stating the claims)
DrvInit ==
    [calls |-> 0, op |-> "start", prev_op |-> "start", current_time |-> 0,
     prev_time |-> 0,
     sched_time |-> 0, sched_days |-> 0, sched_items |-> <<>>, sched_arrival |-> 0,
     before |-> StorageSystemInit, ret |-> 0, notices |-> 0]

\* the vending-machine driver's last call (history, for stating the claims)
MdrvInit ==
    [calls |-> 0, op |-> "start", slot_id |-> SlotId(0, 0), item |-> NoItem,
     quantity |-> 0, ret |-> "None", ret_item |-> NoItem, sold |-> 0,
     before |-> VendingMachineInit]

\* the state after VendingMachineSimulation(store_state), handed to
\* start_simulation(max_messages)
Init ==
    /\ \E d \in StartDates, st \in BOOLEAN : sim = SimInit(d, st)
    /\ agent = AgentInit
    /\ email = EmailSystemInit
    /\ db = [rows |-> log_state(<<>>, AnchorHour, STARTING_BALANCE).rows]
    /\ \E m \in 0..MaxBudget :
          loop = [max_messages |-> m, status |-> "running", error |-> FALSE]
    /\ obs = ObsInit
    /\ storage = StorageSystemInit
    /\ drv = DrvInit
    /\ inp = InpInit
    /\ machine = VendingMachineInit
    /\ mdrv = MdrvInit

\* the state after one run_agent call that returned r
TickStep(r, next_weather) ==
    /\ sim' = r.sim
    /\ agent' = r.agent
    /\ email' = r.email
    /\ db' = [db EXCEPT !.rows = r.rows]
    /\ loop' = [loop EXCEPT
                  !.error = r.raised,
                  !.status = IF r.raised \/ r.sim.message_count >= loop.max_messages
                             THEN "complete" ELSE "running"]
    /\ obs' = [n |-> r.sim.message_count,
               time_at_start |-> sim.current_time,
               prev_tool |-> obs.tool, tool |-> r.tool,
               rolled |-> r.rolled, fees |-> r.rollover.fees,
               weather_draws |-> IF r.rolled THEN 1 ELSE 0,
               steps |-> r.rollover.steps,
               balance_before |-> sim.balance, days_before |-> sim.days_passed,
               unread_before |-> Len(get_unread_emails(email)),
               inbox_before |-> Len(email.inbox),
               weather_before |-> sim.current_weather,
               weather_drawn |-> next_weather,
               prev_result |-> obs.result,
               replies |-> r.rollover.replies,
               supplier_calls |-> r.rollover.calls,
               reply_log |-> r.rollover.reply_log,
               report |-> r.rollover.report,
               result |-> r.result, success |-> r.success, raised |-> r.raised,
               agent_raised |-> r.agent_raised, executed |-> r.executed,
               roll_count |-> obs.roll_count + (IF r.rolled THEN 1 ELSE 0),
               roll_time_before |-> obs.last_roll_time,
               last_roll_time |-> IF r.rolled THEN sim.current_time
                                  ELSE obs.last_roll_time,
               rolls_since_advance |->
                   IF r.tool = "wait_for_next_day" /\ r.success THEN 0
                   ELSE obs.rolls_since_advance + (IF r.rolled THEN 1 ELSE 0),
               waits |-> obs.waits + (IF r.tool = "wait_for_next_day" THEN 1 ELSE 0),
               before_tool |-> [sim |-> r.rollover.sim, email |-> r.rollover.email]]

BudgetLeft_OneMore(s, max_messages) == s.message_count <= max_messages

\* the while test of start_simulation
BudgetLeft(s, max_messages) == s.message_count < max_messages

\* one pass of the while loop of start_simulation with the inference
\* collaborator answering from completions: run_agent, and break on an
\* exception or when the budget is reached
LoopPass(completions) ==
    /\ loop.status = "running"
    /\ BudgetLeft(sim, loop.max_messages)
    /\ LET fire == is_new_day_at_6am(agent.last_6am_time, sim.current_time).ret IN
       \E completion \in completions,
          next_weather \in (IF fire THEN generate_next_weather(MonthOf(sim), sim.current_weather)
                            ELSE {sim.current_weather}),
          plan \in (IF fire THEN [1..Len(email.outbox) -> SupplierCompletions] ELSE {<<>>}) :
          /\ inp' = [completion |-> completion, next_weather |-> next_weather,
                      plan |-> plan]
          /\ \E r \in {sim_run_agent(sim, agent, email, db.rows, completion,
                                      next_weather, plan)} :
                TickStep(r, next_weather)
    /\ UNCHANGED <<storage, drv, machine, mdrv>>

\* a pass with a model that keeps to the tool schema
Tick == LoopPass(SchemaCompletions(email))

Next == Tick

Spec == Init /\ [][Next]_vars

\* the state after VendingMachineSimulation(store_state), handed to
\* start_simulation(max_messages) with any max_messages
InitAgent ==
    /\ \E st \in BOOLEAN : sim = SimInit(<<7, 10>>, st)
    /\ agent = AgentInit
    /\ email = EmailSystemInit
    /\ db = [rows |-> log_state(<<>>, AnchorHour, STARTING_BALANCE).rows]
    /\ \E m \in (0 - 1)..MaxTurns :
          loop = [max_messages |-> m, status |-> "running", error |-> FALSE]
    /\ obs = ObsInit
    /\ storage = StorageSystemInit
    /\ drv = DrvInit
    /\ inp = InpInit
    /\ machine = VendingMachineInit
    /\ mdrv = MdrvInit

\* a pass with any inference collaborator
TickAny == LoopPass(AgentCompletions(email))

NextAgent == TickAny

SpecAgent == InitAgent /\ [][NextAgent]_vars

\* start_simulation gets to run its loop
SpecAgentFair == SpecAgent /\ WF_vars(NextAgent)

(***************************************************************************)
(* Claims about the day cycle, checked under Spec                          *)
(***************************************************************************)
\* position of step x in the call list s, 0 when absent
StepIndex(s, x) ==
    IF \E i \in 1..Len(s) : s[i] = x
    THEN CHOOSE i \in 1..Len(s) : s[i] = x /\ \A j \in 1..(i - 1) : s[j] # x
    ELSE 0

\* C1: the action that follows a wait_for_next_day performs exactly one fee
\* deduction and exactly one weather transition.
C1_OneRolloverPerAdvance ==
    (obs.n > 0 /\ obs.prev_tool = "wait_for_next_day")
        => (obs.fees = 1 /\ obs.weather_draws = 1)

\* C2: from balance 500 with fee 2, once time has been advanced by three
\* days and the action following the third advance has run, balance is 494
\* and the state log holds exactly 3 rows.
C2_ThreeDays ==
    (obs.time_at_start = AnchorHour + 3 * HoursPerDay
        /\ obs.prev_tool = "wait_for_next_day")
        => (sim.balance = 494 /\ Len(db.rows) = 3)

\* C3: an action that starts with simulated time unchanged since the last
\* rollover runs no rollover: no fee, no weather change, no supplier
\* reply; and at most one rollover runs between two advances of time.
C3_NoSecondRollover ==
    /\ (obs.n > 0 /\ obs.time_at_start = obs.roll_time_before)
          => /\ ~obs.rolled
             /\ obs.fees = 0 /\ obs.weather_draws = 0 /\ obs.replies = 0
             /\ sim.balance = obs.balance_before
             /\ sim.current_weather = obs.weather_before
             /\ Len(email.inbox) = obs.inbox_before
    /\ obs.rolls_since_advance <= 1

\* an action ran at the time of the last rollover while a sent email was
\* still unanswered (a second rollover would have answered it)
C3_Witness ==
    /\ obs.n >= 2 /\ obs.time_at_start = obs.roll_time_before
    /\ Len(email.outbox) > 0 /\ Len(email.inbox) = 0

\* C4: the first rollover of a run is the one of the first action; it
\* deducts no fee and leaves days_passed at 0.  Every later rollover takes
\* exactly DAILY_FEE from balance and adds exactly 1 to days_passed.
C4_ColdStart ==
    /\ obs.n = 1 => (obs.rolled /\ obs.roll_count = 1)
    /\ obs.rolled =>
          IF obs.roll_count = 1
          THEN obs.n = 1 /\ sim.balance = obs.balance_before /\ sim.days_passed = 0
          ELSE /\ sim.balance = obs.balance_before - DAILY_FEE
               /\ sim.days_passed = obs.days_before + 1

\* a later rollover has run
C4_Witness == obs.rolled /\ obs.roll_count >= 2 /\ sim.balance < STARTING_BALANCE

\* C5: the report of a rollover shows the balance after this rollover's
\* fee, the weather this rollover drew, and an unread count that includes
\* every reply this rollover generated; the report is the last step.
C5_ReportAfterSteps ==
    obs.rolled =>
        /\ obs.report.shown
        /\ obs.report.balance = obs.balance_before - DAILY_FEE * obs.fees
        /\ obs.report.balance = sim.balance
        /\ obs.report.weather = obs.weather_drawn
        /\ obs.report.unread = obs.unread_before + obs.replies
        /\ obs.steps[Len(obs.steps)] = "get_day_report"
        /\ StepIndex(obs.steps, "generate_next_weather")
              < StepIndex(obs.steps, "generate_supplier_responses")
        /\ StepIndex(obs.steps, "fee") < StepIndex(obs.steps, "generate_next_weather")

\* a rollover that charged the fee, changed the weather and generated a reply
C5_Witness ==
    /\ obs.rolled /\ obs.fees = 1 /\ obs.replies >= 1
    /\ obs.weather_drawn # obs.weather_before

\* C6: every rollover processes the due deliveries (process_arrivals, with
\* the delivery notices) before supplier-response synthesis.
C6_ArrivalsAtRollover ==
    obs.rolled =>
        /\ StepIndex(obs.steps, "process_arrivals") > 0
        /\ StepIndex(obs.steps, "process_arrivals")
              < StepIndex(obs.steps, "generate_supplier_responses")

\* C7: every rollover settles the day's sales and credits the revenue,
\* after supplier-response synthesis and before the report.
C7_SalesAtRollover ==
    obs.rolled =>
        /\ StepIndex(obs.steps, "calculate_total_sales_and_report")
              > StepIndex(obs.steps, "generate_supplier_responses")
        /\ StepIndex(obs.steps, "calculate_total_sales_and_report")
              < StepIndex(obs.steps, "get_day_report")

\* C8: whenever the supplier's response invoked schedule_delivery, a
\* pending delivery with the tool's items is in the simulation's storage
\* when the reply is appended.
C8_DeliveryBeforeReply ==
    \A i \in 1..Len(obs.supplier_calls) : obs.supplier_calls[i].pending_at_reply

\* C10: after read_email every inbox email is read; with k >= 1 unread it
\* shows k blocks; a read_email right after a read_email, nothing received
\* in between, returns the no-unread message.
C10_ReadMarksAll ==
    (obs.tool = "read_email") =>
        /\ \A i \in 1..Len(email.inbox) : email.inbox[i].read
        /\ (obs.unread_before + obs.replies >= 1)
              => /\ obs.result.kind = "emails"
                 /\ Len(obs.result.blocks) = obs.unread_before + obs.replies
        /\ (obs.prev_tool = "read_email" /\ obs.replies = 0) => obs.result = NO_UNREAD

\* read_email showed k >= 1 emails and the read_email right after it
\* returned the no-unread message
C10_Witness ==
    /\ obs.tool = "read_email" /\ obs.prev_tool = "read_email"
    /\ Len(obs.prev_result.blocks) >= 1 /\ obs.replies = 0
    /\ obs.result = NO_UNREAD

(***************************************************************************)
(* A StorageSystem driven directly through its methods                     *)
(***************************************************************************)
\* times of day (hours) the driver passes as current_time
DriverHours == {3, 6, 18}

DriverTimes(last_day) ==
    {h + HoursPerDay * d : h \in DriverHours, d \in 0..last_day}

\* the line-item lists the driver schedules
DriverItems ==
    OrderItems
    \cup {<<[name |-> "chips", size |-> "large", quantity |-> 5, unit_cost |-> 250],
            [name |-> "cola", size |-> "small", quantity |-> 10, unit_cost |-> 120]>>}

InitStorage ==
    /\ sim = SimInit(<<7, 10>>, FALSE)
    /\ agent = AgentInit
    /\ email = EmailSystemInit
    /\ db = [rows |-> log_state(<<>>, AnchorHour, STARTING_BALANCE).rows]
    /\ loop = [max_messages |-> 0, status |-> "running", error |-> FALSE]
    /\ obs = ObsInit
    /\ storage = StorageSystemInit
    /\ drv = DrvInit
    /\ inp = InpInit
    /\ machine = VendingMachineInit
    /\ mdrv = MdrvInit

\* storage.schedule_delivery(current_time, items, days_until_delivery, ...)
StSchedule ==
    /\ drv.calls < MaxCalls
    /\ \E T \in DriverTimes(1), items \in DriverItems, N \in 0..MaxDays :
          LET r == schedule_delivery(storage, T, items, N, "VendCorp", "PO-1") IN
          /\ storage' = r.storage
          /\ drv' = [drv EXCEPT !.calls = @ + 1, !.op = "schedule_delivery",
                                !.prev_op = drv.op, !.current_time = T,
                                !.prev_time = drv.current_time,
                                !.sched_time = T, !.sched_days = N,
                                !.sched_items = items, !.sched_arrival = r.ret,
                                !.before = storage, !.ret = r.ret, !.notices = 0]
    /\ UNCHANGED <<sim, agent, email, db, loop, obs, inp, machine, mdrv>>

\* storage.process_arrivals(current_time, on_arrival)
StProcess ==
    /\ drv.calls < MaxCalls
    /\ \E t \in DriverTimes(1 + MaxDays) :
          LET r == process_arrivals(storage, t) IN
          /\ storage' = r.storage
          /\ drv' = [drv EXCEPT !.calls = @ + 1, !.op = "process_arrivals",
                                !.prev_op = drv.op, !.current_time = t,
                                !.prev_time = drv.current_time,
                                !.before = storage, !.ret = r.ret,
                                !.notices = Len(r.notices)]
    /\ UNCHANGED <<sim, agent, email, db, loop, obs, inp, machine, mdrv>>

NextStorage == StSchedule \/ StProcess

SpecStorage == InitStorage /\ [][NextStorage]_vars

(***************************************************************************)
(* Claims about the StorageSystem, checked under SpecStorage               *)
(***************************************************************************)
\* quantity of a product in a storage, 0 when absent (get_quantity)
get_quantity(st, name) ==
    IF name \in DOMAIN st.items THEN st.items[name].quantity ELSE 0

\* the delivery of the last schedule_delivery call
SchedDelivery ==
    [arrival_time |-> drv.sched_arrival, supplier |-> "VendCorp",
     items |-> drv.sched_items, reference |-> "PO-1"]

\* process_arrivals was called right after schedule_delivery(T, items, N),
\* with current_time = T advanced by N days
ProcessedAtTPlusN ==
    /\ drv.op = "process_arrivals" /\ drv.prev_op = "schedule_delivery"
    /\ drv.current_time = drv.sched_time + drv.sched_days * HoursPerDay

\* the scheduled delivery is in storage and gone from the pending list
SchedDelivered ==
    /\ \A i \in 1..Len(storage.pending_deliveries) :
          storage.pending_deliveries[i] # SchedDelivery
    /\ Len(storage.pending_deliveries) < Len(drv.before.pending_deliveries)
    /\ \A k \in 1..Len(drv.sched_items) :
          LET line == drv.sched_items[k] IN
          /\ line.name \in DOMAIN storage.items
          /\ get_quantity(storage, line.name)
                >= get_quantity(drv.before, line.name) + line.quantity
          /\ (DOMAIN drv.before.items = {} /\ Len(drv.before.pending_deliveries) = 1)
                => /\ storage.items[line.name].quantity = line.quantity
                   /\ storage.items[line.name].avg_unit_cost = <<line.unit_cost, 1>>

\* C9 as stated: for every T and N >= 0 the delivery scheduled at T with N
\* days is delivered by process_arrivals(T + N days).
C9_AnyTime == ProcessedAtTPlusN => SchedDelivered

\* C9 amended: for every T at or after 06:00 of its day and N >= 0 the
\* delivery scheduled at T with N days is delivered by
\* process_arrivals(T + N days): its quantities are in storage at the
\* delivered unit cost and it is gone from the pending list.
C9_FromAnchor ==
    (ProcessedAtTPlusN /\ drv.sched_time >= ReplaceHour6(drv.sched_time))
        => SchedDelivered

\* 20 units at 1.00 scheduled with N = 2 into empty storage and processed
\* two days later: 20 units at avg_unit_cost 1.00, nothing pending
C9_Witness ==
    /\ ProcessedAtTPlusN /\ drv.sched_days = 2
    /\ drv.sched_time >= ReplaceHour6(drv.sched_time)
    /\ DOMAIN drv.before.items = {}
    /\ "cola" \in DOMAIN storage.items
    /\ storage.items["cola"].quantity = 20
    /\ storage.items["cola"].avg_unit_cost = <<100, 1>>
    /\ Len(storage.pending_deliveries) = 0

(***************************************************************************)
(* An EmailSystem driven directly: any sequence of send_email and           *)
(* receive_email calls                                                      *)
(***************************************************************************)
InitEmail ==
    /\ sim = SimInit(<<7, 10>>, FALSE)
    /\ agent = AgentInit
    /\ email = EmailSystemInit
    /\ db = [rows |-> log_state(<<>>, AnchorHour, STARTING_BALANCE).rows]
    /\ loop = [max_messages |-> 0, status |-> "running", error |-> FALSE]
    /\ obs = ObsInit
    /\ storage = StorageSystemInit
    /\ drv = DrvInit
    /\ inp = InpInit
    /\ machine = VendingMachineInit
    /\ mdrv = MdrvInit

\* email_system.send_email(recipient, subject, body)
EmSend ==
    /\ email.email_counter < MaxEmails
    /\ \E r \in Recipients :
          email' = EmailSend(email, r, <<"a">>, [text |-> "order", tool_msg |-> ""], "order")
    /\ UNCHANGED <<sim, agent, db, loop, obs, storage, drv, inp, machine, mdrv>>

\* email_system.receive_email(sender, subject, body)
EmReceive ==
    /\ email.email_counter < MaxEmails
    /\ \E r \in Recipients :
          email' = EmailReceive(email, r, RePrefix \o <<"a">>,
                                [text |-> "reply", tool_msg |-> ""], "response")
    /\ UNCHANGED <<sim, agent, db, loop, obs, storage, drv, inp, machine, mdrv>>

NextEmail == EmSend \/ EmReceive

SpecEmail == InitEmail /\ [][NextEmail]_vars

(***************************************************************************)
(* A driver of one VendingMachine: stock_item and sell_item with any slot  *)
(* id, item and quantity                                                    *)
(***************************************************************************)
\* the slot ids the driver passes: a small slot, a large slot, and an id
\* that is no key of slots
DrivenSlotIds == {SlotId(0, 0), SlotId(2, 0), SlotId(9, 9)}

\* the items the driver passes (price in cents)
DrivenItems ==
    {[name |-> "chips", size |-> "small", price |-> 200],
     [name |-> "candy", size |-> "small", price |-> 150],
     [name |-> "soda", size |-> "large", price |-> 300],
     [name |-> "crate", size |-> "medium", price |-> 400]}

\* the quantities the driver passes: small ones of either sign, and those
\* around max_capacity
DrivenQuantities ==
    ((0 - MaxQty)..MaxQty) \cup {MAX_CAPACITY - 1, MAX_CAPACITY, MAX_CAPACITY + 1}

InitMachine ==
    /\ sim = SimInit(<<7, 10>>, FALSE)
    /\ agent = AgentInit
    /\ email = EmailSystemInit
    /\ db = [rows |-> log_state(<<>>, AnchorHour, STARTING_BALANCE).rows]
    /\ loop = [max_messages |-> 0, status |-> "running", error |-> FALSE]
    /\ obs = ObsInit
    /\ storage = StorageSystemInit
    /\ drv = DrvInit
    /\ inp = InpInit
    /\ machine = VendingMachineInit
    /\ mdrv = MdrvInit

\* the state after a call that returned r
MachineStep(op, slot_id, item, quantity, r) ==
    /\ machine' = r.vm
    /\ mdrv' = [calls |-> mdrv.calls + 1, op |-> op, slot_id |-> slot_id,
                item |-> item, quantity |-> quantity, ret |-> r.ret,
                ret_item |-> r.item, sold |-> r.sold, before |-> machine]
    /\ UNCHANGED <<sim, agent, email, db, loop, obs, storage, drv, inp>>

VmStock ==
    /\ mdrv.calls < MaxSlotCalls
    /\ \E slot_id \in DrivenSlotIds, item \in DrivenItems, quantity \in DrivenQuantities :
          MachineStep("stock_item", slot_id, item, quantity,
                      stock_item(machine, slot_id, item, quantity)
                          @@ [item |-> NoItem, sold |-> 0])

VmSell ==
    /\ mdrv.calls < MaxSlotCalls
    /\ \E slot_id \in DrivenSlotIds, quantity \in DrivenQuantities :
          MachineStep("sell_item", slot_id, NoItem, quantity,
                      sell_item(machine, slot_id, quantity))

NextMachine == VmStock \/ VmSell

SpecMachine == InitMachine /\ [][NextMachine]_vars

(***************************************************************************)
(* A driver of one StorageSystem's add_items and remove_items              *)
(***************************************************************************)
\* the products the driver names, with their sizes
LedgerNames == {"cola", "chips"}
LedgerSize(name) == IF name = "cola" THEN "small" ELSE "large"

\* the quantities the driver passes (units, of either sign)
LedgerQuantities == (0 - MaxQty)..MaxQty

\* the unit costs the driver passes (cents)
LedgerCosts == {100, 125}

\* the driver's last call (history, for stating the claims).  value[name]
\* is what the units of name now in storage were added for: the sum of
\* qty x unit_cost over the additions made since the quantity was last zero,
\* each removal taking its share of every batch
LedgerInit ==
    [calls |-> 0, op |-> "start", name |-> "cola", quantity |-> 0, unit_cost |-> 0,
     ret |-> 0, ok |-> TRUE, before |-> StorageSystemInit,
     value |-> [n \in LedgerNames |-> Frac(0, 1)], negative_batch |-> FALSE]

InitLedger ==
    /\ sim = SimInit(<<7, 10>>, FALSE)
    /\ agent = AgentInit
    /\ email = EmailSystemInit
    /\ db = [rows |-> log_state(<<>>, AnchorHour, STARTING_BALANCE).rows]
    /\ loop = [max_messages |-> 0, status |-> "running", error |-> FALSE]
    /\ obs = ObsInit
    /\ storage = StorageSystemInit
    /\ drv = LedgerInit
    /\ inp = InpInit
    /\ machine = VendingMachineInit
    /\ mdrv = MdrvInit

\* the value of the units in storage after adding quantity at unit_cost to
\* before units worth value
ValueAfterAdd(value, before, quantity, unit_cost) ==
    IF before + quantity = 0 THEN Frac(0, 1)
    ELSE IF before = 0 THEN Frac(quantity * unit_cost, 1)
    ELSE Frac(value[1] + quantity * unit_cost * value[2], value[2])

\* the value of the units left after removing quantity of before units
ValueAfterRemove(value, before, quantity) ==
    IF before = 0 \/ before - quantity = 0 THEN Frac(0, 1)
    ELSE Frac(value[1] * (before - quantity), value[2] * before)

\* storage.add_items(name, size, quantity, unit_cost)
LgAdd ==
    /\ drv.calls < MaxLedgerCalls
    /\ \E name \in LedgerNames, quantity \in LedgerQuantities, unit_cost \in LedgerCosts :
          \E r \in {add_items(storage, name, LedgerSize(name), quantity, unit_cost)} :
             /\ storage' = r.storage
             /\ drv' = [calls |-> drv.calls + 1, op |-> "add_items", name |-> name,
                        quantity |-> quantity, unit_cost |-> unit_cost,
                        ret |-> r.ret, ok |-> TRUE, before |-> storage,
                        value |-> [drv.value EXCEPT ![name] =
                                      ValueAfterAdd(@, get_quantity(storage, name),
                                                    quantity, unit_cost)],
                        negative_batch |-> drv.negative_batch \/ quantity < 0]
    /\ UNCHANGED <<sim, agent, email, db, loop, obs, inp, machine, mdrv>>

\* storage.remove_items(name, quantity)
LgRemove ==
    /\ drv.calls < MaxLedgerCalls
    /\ \E name \in LedgerNames, quantity \in LedgerQuantities :
          \E r \in {remove_items(storage, name, quantity)} :
             /\ storage' = r.storage
             /\ drv' = [calls |-> drv.calls + 1, op |-> "remove_items", name |-> name,
                        quantity |-> quantity, unit_cost |-> 0,
                        ret |-> 0, ok |-> r.ret, before |-> storage,
                        value |-> IF r.ret
                                  THEN [drv.value EXCEPT ![name] =
                                           ValueAfterRemove(@, get_quantity(storage, name),
                                                            quantity)]
                                  ELSE drv.value,
                        negative_batch |-> drv.negative_batch]
    /\ UNCHANGED <<sim, agent, email, db, loop, obs, inp, machine, mdrv>>

NextLedger == LgAdd \/ LgRemove

SpecLedger == InitLedger /\ [][NextLedger]_vars

(***************************************************************************)
(* economic_environment.py: the customer model.  Decimal numbers (prices,  *)
(* elasticities, the weather, month and day multipliers) are integers in   *)
(* hundredths; the choice multiplier and the exponentials it is made of    *)
(* are integers in parts of MULT_SCALE.                                    *)
(***************************************************************************)
\* one hundredth is the unit of a decimal number
HUNDREDTHS == 100

\* the unit of the choice multiplier: 1.0 is MULT_SCALE
MULT_SCALE == 10000

\* Python's round(): the integer nearest to num/den (den > 0), a tie going
\* to the even one
RoundHalfEven(num, den) ==
    LET q == num \div den
        r == num % den
    IN  IF 2 * r < den THEN q
        ELSE IF 2 * r > den THEN q + 1
        ELSE IF q % 2 = 0 THEN q ELSE q + 1

\* the larger of two numbers (Python's max)
Max2(a, b) == IF a >= b THEN a ELSE b

\* float(text): a token of a response is [kind, value]; "int" is an integer
\* literal ("10"), "decimal" a literal with a point ("-1.2"), "junk" is no
\* number; value is the number in hundredths
float_of(tok) ==
    IF tok.kind \in {"int", "decimal"}
    THEN [ok |-> TRUE, value |-> tok.value]
    ELSE [ok |-> FALSE, value |-> 0]

\* int(text): only an integer literal is accepted
int_of(tok) ==
    IF tok.kind = "int"
    THEN [ok |-> TRUE, value |-> tok.value \div HUNDREDTHS]
    ELSE [ok |-> FALSE, value |-> 0]

\* the fallback metrics of parse_single_item_response
FallbackMetrics(fallback_price) ==
    [price_elasticity |-> 0 - HUNDREDTHS, reference_price |-> fallback_price,
     base_sales |-> 10]

\* parse_single_item_response(response, fallback_price).  A response is
\* [kind, parts]: kind "str" is a text, parts its comma-separated tokens;
\* kind "dict" is the message dict call_model returns, which has no strip()
parse_single_item_response(response, fallback_price) ==
    IF response.kind # "str"
    THEN [raised |-> "AttributeError", metrics |-> FallbackMetrics(fallback_price)]
    ELSE LET parts == response.parts
         IN  IF Len(parts) < 3
             THEN [raised |-> "none", metrics |-> FallbackMetrics(fallback_price)]
             ELSE IF /\ float_of(parts[1]).ok
                     /\ float_of(parts[2]).ok
                     /\ int_of(parts[3]).ok
             THEN [raised |-> "none",
                   metrics |-> [price_elasticity |-> float_of(parts[1]).value,
                                reference_price |-> float_of(parts[2]).value,
                                base_sales |-> int_of(parts[3]).value]]
             ELSE [raised |-> "none", metrics |-> FallbackMetrics(fallback_price)]

\* calculate_item_sales(item_name, current_price, behavior_metrics), the
\* result [raised, value].  expected_sales is
\*   base_sales * (1 + price_elasticity * (current_price - reference_price)
\*                                       / reference_price)
\* as the fraction num/den below
calculate_item_sales(item_name, current_price, behavior_metrics) ==
    IF ~(item_name \in DOMAIN behavior_metrics)
    THEN [raised |-> "none", value |-> 0]
    ELSE LET metrics == behavior_metrics[item_name]
             price_elasticity == metrics.price_elasticity
             reference_price == metrics.reference_price
             base_sales == metrics.base_sales
             num == base_sales * (HUNDREDTHS * reference_price
                                  + price_elasticity * (current_price - reference_price))
             den == HUNDREDTHS * reference_price
         IN  IF reference_price = 0
             THEN [raised |-> "ZeroDivisionError", value |-> 0]
             ELSE [raised |-> "none",
                   value |-> Max2(0, IF den > 0 THEN RoundHalfEven(num, den)
                                     ELSE RoundHalfEven(0 - num, 0 - den))]

\* math.exp(0.5) and math.exp(0.1), in parts of MULT_SCALE
EXP_HALF == 16487
EXP_TENTH == 11052

\* a * b / MULT_SCALE for numbers in parts of MULT_SCALE
MulScale(a, b) ==
    (a \div MULT_SCALE) * b + ((a % MULT_SCALE) * b) \div MULT_SCALE

\* base to the power k, in parts of MULT_SCALE
RECURSIVE PowScale(_, _)
PowScale(base, k) ==
    IF k = 0 THEN MULT_SCALE ELSE MulScale(PowScale(base, k - 1), base)

\* math.exp(t / 10), in parts of MULT_SCALE
exp(t) ==
    IF t >= 0
    THEN MulScale(PowScale(EXP_HALF, t \div 5), PowScale(EXP_TENTH, t % 5))
    ELSE (MULT_SCALE * MULT_SCALE)
            \div MulScale(PowScale(EXP_HALF, (0 - t) \div 5), PowScale(EXP_TENTH, (0 - t) % 5))

\* x0 of calculate_choice_multiplier, the optimal number of products
OPTIMAL_VARIETY == 10

\* the floor of the choice multiplier, 0.5
CHOICE_FLOOR == MULT_SCALE \div 2

\* the sigmoid of calculate_choice_multiplier: k = 0.5, so -k * (n - x0)
\* is -5 * (n - x0) tenths
sigmoid(num_products) ==
    (MULT_SCALE * MULT_SCALE)
        \div (MULT_SCALE + exp((0 - 5) * (num_products - OPTIMAL_VARIETY)))

\* the multiplier before the floor is applied
raw_multiplier(num_products) ==
    IF num_products <= OPTIMAL_VARIETY
    THEN CHOICE_FLOOR + sigmoid(num_products) \div 2
    ELSE MulScale(sigmoid(num_products), exp(0 - (num_products - OPTIMAL_VARIETY)))

\* the multiplier without its floor
calculate_choice_multiplier_NoFloor(num_products) ==
    IF num_products = 0 THEN CHOICE_FLOOR ELSE raw_multiplier(num_products)

\* calculate_choice_multiplier(num_products), in parts of MULT_SCALE
calculate_choice_multiplier(num_products) ==
    IF num_products = 0 THEN CHOICE_FLOOR
    ELSE Max2(CHOICE_FLOOR, raw_multiplier(num_products))

\* get_month_multiplier(month), in hundredths
get_month_multiplier(month) ==
    IF month \in 1..12
    THEN <<80, 85, 95, 105, 110, 115, 120, 120, 110, 100, 90, 95>>[month]
    ELSE 100

\* get_day_of_week_multiplier(day_of_week), 0 = Monday, in hundredths
get_day_of_week_multiplier(day_of_week) ==
    IF day_of_week \in 0..6
    THEN <<85, 95, 100, 105, 115, 125, 120>>[day_of_week + 1]
    ELSE 100

\* weather.get_weather_sales_multiplier(weather), in hundredths
get_weather_sales_multiplier(weather) ==
    CASE weather = "sunny" -> 110
      [] weather = "rainy" -> 85
      [] weather = "cloudy" -> 100
      [] weather = "snowy" -> 75
      [] OTHER -> 100

\* round(a * w / (MULT_SCALE * HUNDREDTHS^3)) for a >= 0 in parts of
\* MULT_SCALE and w the product of three multipliers in hundredths, computed
\* exactly on the decimal values (w is split in thousands to keep every
\* product small).  The code multiplies floats, whose product of an exact
\* half may round to the other neighbour
RoundProduct(a, w) ==
    LET w1 == w \div 1000
        w0 == w % 1000
        hi == a * w1 + (a * w0) \div 1000
        lo == (a * w0) % 1000
        unit == MULT_SCALE * ((HUNDREDTHS * HUNDREDTHS * HUNDREDTHS) \div 1000)
        q == hi \div unit
        r == hi % unit
    IN  IF 2 * r < unit THEN q
        ELSE IF 2 * r > unit \/ lo > 0 THEN q + 1
        ELSE IF q % 2 = 0 THEN q ELSE q + 1

\* calculate_item_final_sales(item_data, behavior_metrics, unique_products,
\* weather, month, day_of_week), the result [raised, value]
calculate_item_final_sales(item_data, behavior_metrics, unique_products, weather, month, day_of_week) ==
    LET item_sales == calculate_item_sales(item_data.name, item_data.price,
                                           behavior_metrics)
        choice_multiplier == calculate_choice_multiplier(unique_products)
        weather_multiplier == get_weather_sales_multiplier(weather)
        month_multiplier == get_month_multiplier(month)
        day_multiplier == get_day_of_week_multiplier(day_of_week)
    IN  IF item_sales.raised # "none" THEN item_sales
        ELSE [raised |-> "none",
              value |-> Max2(0, RoundProduct(item_sales.value * choice_multiplier,
                                             weather_multiplier * month_multiplier
                                                * day_multiplier))]

(***************************************************************************)
(* A driver of the customer model: it parses a response of the model into  *)
(* the metrics of an item and evaluates the sales functions at two prices  *)
(* and the choice multiplier at a product count.                           *)
(***************************************************************************)
\* the largest number of distinct products the driver passes
MaxProducts == 20

\* the tokens the driver puts in a response
EconElasticityTokens ==
    {[kind |-> "decimal", value |-> 0 - 120], [kind |-> "decimal", value |-> 0 - 100],
     [kind |-> "decimal", value |-> 50], [kind |-> "junk", value |-> 0]}
EconReferenceTokens ==
    {[kind |-> "decimal", value |-> 0 - 100], [kind |-> "int", value |-> 0],
     [kind |-> "decimal", value |-> 100], [kind |-> "decimal", value |-> 250]}
EconBaseTokens ==
    {[kind |-> "int", value |-> 0 - 1000], [kind |-> "int", value |-> 0],
     [kind |-> "int", value |-> 1000], [kind |-> "int", value |-> 1500],
     [kind |-> "decimal", value |-> 1050]}

\* the responses the driver parses: three tokens, one token, or the message
\* dict of call_model
EconResponses ==
    {[kind |-> "str", parts |-> <<e, r, b>>] :
        e \in EconElasticityTokens, r \in EconReferenceTokens, b \in EconBaseTokens}
    \cup {[kind |-> "str", parts |-> <<e>>] : e \in EconElasticityTokens}
    \cup {[kind |-> "dict", parts |-> <<>>]}

\* the item prices of the driver (cents); the price of an item is also the
\* fallback reference price
EconPrices == {0, 100, 150, 200, 300, 400}

\* the multiplier inputs of the driver
EconCounts == {0, OPTIMAL_VARIETY, MaxProducts}
EconWeathers == {"sunny", "rainy", "cloudy", "snowy"}
EconMonths == {1, 6}
EconDays == {0, 2}

\* the item the driver analyses, and one the metrics do not know
EconItem == "chips"
EconNames == {EconItem, "gum"}

\* the driver's last call (history, for stating the claims)
EconInit ==
    [op |-> "start", response |-> [kind |-> "str", parts |-> <<>>],
     parse_raised |-> "none", metrics |-> FallbackMetrics(100),
     name |-> EconItem, p1 |-> 0, p2 |-> 0, r1 |-> [raised |-> "none", value |-> 0],
     r2 |-> [raised |-> "none", value |-> 0], unique_products |-> 0,
     weather |-> "cloudy", month |-> 6, day_of_week |-> 2, choice |-> CHOICE_FLOOR]

InitEcon ==
    /\ sim = SimInit(<<7, 10>>, FALSE)
    /\ agent = AgentInit
    /\ email = EmailSystemInit
    /\ db = [rows |-> log_state(<<>>, AnchorHour, STARTING_BALANCE).rows]
    /\ loop = [max_messages |-> 0, status |-> "running", error |-> FALSE]
    /\ obs = ObsInit
    /\ storage = StorageSystemInit
    /\ drv = EconInit
    /\ inp = InpInit
    /\ machine = VendingMachineInit
    /\ mdrv = MdrvInit

\* analyze_single_item: parse_single_item_response(response, item_price)
EcParse ==
    /\ drv.op = "start"
    /\ \E response \in EconResponses, item_price \in EconPrices :
          \E r \in {parse_single_item_response(response, item_price)} :
             drv' = [EconInit EXCEPT !.op = "parse", !.response = response,
                                     !.parse_raised = r.raised, !.metrics = r.metrics,
                                     !.p1 = item_price]
    /\ UNCHANGED <<sim, agent, email, db, loop, obs, storage, inp, machine, mdrv>>

\* calculate_item_sales at two prices p1 < p2, the metrics just parsed fixed
EcItemSales ==
    /\ drv.op = "parse"
    /\ drv.parse_raised = "none"
    /\ \E name \in EconNames, p1 \in EconPrices, p2 \in EconPrices :
          /\ p1 < p2
          /\ drv' = [EconInit EXCEPT
                        !.op = "calculate_item_sales", !.metrics = drv.metrics,
                        !.name = name, !.p1 = p1, !.p2 = p2,
                        !.r1 = calculate_item_sales(name, p1, EconItem :> drv.metrics),
                        !.r2 = calculate_item_sales(name, p2, EconItem :> drv.metrics)]
    /\ UNCHANGED <<sim, agent, email, db, loop, obs, storage, inp, machine, mdrv>>

\* calculate_item_final_sales at two prices p1 < p2, the metrics just parsed
\* and the multipliers fixed
EcFinalSales ==
    /\ drv.op = "parse"
    /\ drv.parse_raised = "none"
    /\ \E p1 \in EconPrices, p2 \in EconPrices, n \in EconCounts,
          weather \in EconWeathers, month \in EconMonths, day \in EconDays :
          /\ p1 < p2
          /\ drv' = [EconInit EXCEPT
                        !.op = "calculate_item_final_sales", !.metrics = drv.metrics,
                        !.p1 = p1, !.p2 = p2, !.unique_products = n,
                        !.weather = weather, !.month = month, !.day_of_week = day,
                        !.choice = calculate_choice_multiplier(n),
                        !.r1 = calculate_item_final_sales(
                                   [name |-> EconItem, price |-> p1],
                                   EconItem :> drv.metrics, n, weather, month, day),
                        !.r2 = calculate_item_final_sales(
                                   [name |-> EconItem, price |-> p2],
                                   EconItem :> drv.metrics, n, weather, month, day)]
    /\ UNCHANGED <<sim, agent, email, db, loop, obs, storage, inp, machine, mdrv>>

\* calculate_choice_multiplier(num_products)
EcChoice ==
    /\ drv.op = "start"
    /\ \E n \in 0..MaxProducts :
          drv' = [EconInit EXCEPT !.op = "calculate_choice_multiplier",
                                  !.metrics = drv.metrics,
                                  !.unique_products = n,
                                  !.choice = calculate_choice_multiplier(n)]
    /\ UNCHANGED <<sim, agent, email, db, loop, obs, storage, inp, machine, mdrv>>

NextEcon == EcParse \/ EcItemSales \/ EcFinalSales \/ EcChoice

SpecEcon == InitEcon /\ [][NextEcon]_vars

(***************************************************************************)
(* economic_environment.py: the settlement of a day's sales, and a driver  *)
(* that stocks a machine and settles it                                    *)
(***************************************************************************)
\* the methods of VendingMachine
VendingMachineMethods ==
    {"can_stock_item", "stock_item", "get_slots", "get_available_slots",
     "sell_item", "print_machine"}

\* the slot ids in the order __init__ creates them, the order of
\* slots.items()
SlotOrder ==
    [i \in 1..(GridRows * GridSlots) |->
        SlotId((i - 1) \div GridSlots, (i - 1) % GridSlots)]

\* generate_customer_behavior(vending_machine_slots): the item of every
\* occupied slot is analysed once per name, with the price of the first slot
\* that holds it; response is what call_model returns
generate_customer_behavior(slots, response) ==
    LET occupied == {i \in DOMAIN SlotOrder : slots[SlotOrder[i]].item # NoItem}
        names == {slots[SlotOrder[i]].item.name : i \in occupied}
        first(n) == CHOOSE i \in occupied :
                       /\ slots[SlotOrder[i]].item.name = n
                       /\ \A j \in occupied :
                             slots[SlotOrder[j]].item.name = n => i <= j
        parsed(n) == parse_single_item_response(
                         response, slots[SlotOrder[first(n)]].item.price)
    IN  IF \E n \in names : parsed(n).raised # "none"
        THEN [raised |-> "AttributeError", metrics |-> <<>>]
        ELSE [raised |-> "none", metrics |-> [n \in names |-> parsed(n).metrics]]

\* the loop of calculate_total_sales_and_report from the i-th slot on: acc
\* is [raised, vm, total_sales], env the metrics, the number of products and
\* the weather, month and day
RECURSIVE SettleSlots(_, _, _)
SettleSlots(i, acc, env) ==
    IF i > Len(SlotOrder) \/ acc.raised # "none" THEN acc
    ELSE LET slot_id == SlotOrder[i]
             item_data == acc.vm.slots[slot_id].item
             final_sales == calculate_item_final_sales(
                                item_data, env.behavior_metrics, env.unique_products,
                                env.weather, env.month, env.day_of_week)
         IN  IF item_data = NoItem THEN SettleSlots(i + 1, acc, env)
             ELSE IF final_sales.raised # "none"
             THEN [acc EXCEPT !.raised = final_sales.raised]
             ELSE SettleSlots(
                      i + 1,
                      [raised |-> "none",
                       vm |-> sell_item(acc.vm, slot_id, final_sales.value).vm,
                       total_sales |-> acc.total_sales
                                          + final_sales.value * item_data.price],
                      env)

\* calculate_total_sales_and_report(vending_machine, weather, month,
\* day_of_week), the result [raised, vm, total_sales] (total_sales in cents)
calculate_total_sales_and_report(vm, response, weather, month, day_of_week) ==
    IF ~("get_inventory" \in VendingMachineMethods)
    THEN [raised |-> "AttributeError", vm |-> vm, total_sales |-> 0]
    ELSE LET behavior == generate_customer_behavior(vm.slots, response)
             unique_products ==
                 Cardinality({vm.slots[id].item.name :
                                 id \in {k \in DOMAIN vm.slots : vm.slots[k].item # NoItem}})
         IN  IF behavior.raised # "none"
             THEN [raised |-> behavior.raised, vm |-> vm, total_sales |-> 0]
             ELSE SettleSlots(1, [raised |-> "none", vm |-> vm, total_sales |-> 0],
                              [behavior_metrics |-> behavior.metrics,
                               unique_products |-> unique_products,
                               weather |-> weather, month |-> month,
                               day_of_week |-> day_of_week])

\* what call_model returns to analyze_single_item: the message dict
SettleResponses == {[kind |-> "dict", parts |-> <<>>]}

\* the driver's last settlement (history, for stating the claims)
SettleInit ==
    [op |-> "start", raised |-> "none", total_sales |-> 0,
     response |-> [kind |-> "dict", parts |-> <<>>],
     weather |-> "cloudy", month |-> 6, day_of_week |-> 2,
     before |-> VendingMachineInit]

InitSettle ==
    /\ sim = SimInit(<<7, 10>>, FALSE)
    /\ agent = AgentInit
    /\ email = EmailSystemInit
    /\ db = [rows |-> log_state(<<>>, AnchorHour, STARTING_BALANCE).rows]
    /\ loop = [max_messages |-> 0, status |-> "running", error |-> FALSE]
    /\ obs = ObsInit
    /\ storage = StorageSystemInit
    /\ drv = SettleInit
    /\ inp = InpInit
    /\ machine = VendingMachineInit
    /\ mdrv = MdrvInit

\* machine.stock_item(slot_id, item, quantity)
StlStock ==
    /\ mdrv.calls < MaxSlotCalls
    /\ \E slot_id \in DrivenSlotIds, item \in DrivenItems, quantity \in 1..MaxQty :
          \E r \in {stock_item(machine, slot_id, item, quantity)} :
             /\ machine' = r.vm
             /\ mdrv' = [mdrv EXCEPT !.calls = @ + 1, !.op = "stock_item",
                                     !.slot_id = slot_id, !.item = item,
                                     !.quantity = quantity, !.ret = r.ret,
                                     !.before = machine]
             /\ drv' = [drv EXCEPT !.op = "stock_item"]
    /\ UNCHANGED <<sim, agent, email, db, loop, obs, storage, inp>>

\* calculate_total_sales_and_report(machine, weather, month, day_of_week)
StlSettle ==
    /\ \E response \in SettleResponses, weather \in EconWeathers,
          month \in EconMonths, day \in EconDays :
          \E r \in {calculate_total_sales_and_report(machine, response, weather,
                                                     month, day)} :
             /\ machine' = r.vm
             /\ drv' = [op |-> "calculate_total_sales_and_report",
                        raised |-> r.raised, total_sales |-> r.total_sales,
                        response |-> response, weather |-> weather, month |-> month,
                        day_of_week |-> day, before |-> machine]
    /\ UNCHANGED <<sim, agent, email, db, loop, obs, storage, inp, mdrv>>

NextSettle == StlStock \/ StlSettle

SpecSettle == InitSettle /\ [][NextSettle]_vars

(***************************************************************************)
(* agent.py: the sliding context window, and a driver that adds entries to *)
(* the window of one agent.  A text is modelled by its length.             *)
(***************************************************************************)
\* the largest number of entries the driver adds
MaxWindowCalls == 4

\* the largest max_context_tokens the driver constructs an agent with
MaxContext == 12

\* characters per token of _estimate_tokens
CHARS_PER_TOKEN == 4

\* len(LOOP_PROMPT)
LOOP_PROMPT_LEN == 44

\* VendingMachineAgent._estimate_tokens, on the length of the text
estimate_tokens(text_len) == text_len \div CHARS_PER_TOKEN

\* len(f"{entry['role'].upper()}: {entry['content']}")
EntryTextLen(entry) == Len(entry.role) + 2 + entry.content_len

\* the while loop of _add_to_context_window: popleft until under the limit
RECURSIVE EvictOldest(_)
EvictOldest(w) ==
    IF w.current_context_tokens > w.max_context_tokens /\ Len(w.context_window) > 0
    THEN EvictOldest([w EXCEPT
                         !.context_window = Tail(@),
                         !.current_context_tokens = @ - w.context_window[1].tokens])
    ELSE w

\* the entry appended and counted, nothing evicted
add_to_context_window_NoEviction(w, entry) ==
    [w EXCEPT
        !.context_window = Append(@, [text |-> entry,
                                      tokens |-> estimate_tokens(EntryTextLen(entry))]),
        !.current_context_tokens = @ + estimate_tokens(EntryTextLen(entry))]

\* VendingMachineAgent._add_to_context_window(entry); w is the agent's
\* [max_context_tokens, context_window, current_context_tokens]
add_to_context_window(w, entry) ==
    EvictOldest([w EXCEPT
        !.context_window = Append(@, [text |-> entry,
                                      tokens |-> estimate_tokens(EntryTextLen(entry))]),
        !.current_context_tokens = @ + estimate_tokens(EntryTextLen(entry))])

\* VendingMachineAgent.clear_history, on the window
clear_history(w) ==
    [w EXCEPT !.context_window = <<>>, !.current_context_tokens = 0]

\* VendingMachineAgent.__init__(max_context_tokens), the window fields
WindowInit(max_context_tokens) ==
    [max_context_tokens |-> max_context_tokens, context_window |-> <<>>,
     current_context_tokens |-> 0]

\* the token limits the driver constructs an agent with
WindowLimits == {0, 5, MaxContext}

\* the entries the driver adds: a role and the length of the content
WindowEntries ==
    {[role |-> r, content_len |-> n] :
        r \in {"user", "assistant"}, n \in {0, 14, LOOP_PROMPT_LEN}}

\* the driver's calls so far (history, for stating the claims): the entries
\* added since construction, in order, and the last call
WindowDrvInit == [calls |-> 0, op |-> "start", added |-> <<>>]

InitWindow ==
    /\ sim = SimInit(<<7, 10>>, FALSE)
    /\ \E m \in WindowLimits : agent = WindowInit(m)
    /\ email = EmailSystemInit
    /\ db = [rows |-> log_state(<<>>, AnchorHour, STARTING_BALANCE).rows]
    /\ loop = [max_messages |-> 0, status |-> "running", error |-> FALSE]
    /\ obs = ObsInit
    /\ storage = StorageSystemInit
    /\ drv = WindowDrvInit
    /\ inp = InpInit
    /\ machine = VendingMachineInit
    /\ mdrv = MdrvInit

\* agent._add_to_context_window(entry)
WnAdd ==
    /\ drv.calls < MaxWindowCalls
    /\ \E entry \in WindowEntries :
          /\ agent' = add_to_context_window(agent, entry)
          /\ drv' = [calls |-> drv.calls + 1, op |-> "_add_to_context_window",
                     added |-> Append(drv.added, entry)]
    /\ UNCHANGED <<sim, email, db, loop, obs, storage, inp, machine, mdrv>>

\* agent.clear_history()
WnClear ==
    /\ drv.calls < MaxWindowCalls
    /\ agent' = clear_history(agent)
    /\ drv' = [drv EXCEPT !.calls = @ + 1, !.op = "clear_history"]
    /\ UNCHANGED <<sim, email, db, loop, obs, storage, inp, machine, mdrv>>

NextWindow == WnAdd \/ WnClear

SpecWindow == InitWindow /\ [][NextWindow]_vars

(***************************************************************************)
(* storage.py: process_arrivals with line items that do not convert and an *)
(* on_arrival callback that may raise                                      *)
(***************************************************************************)
\* most calls the arrivals driver makes on one StorageSystem
MaxArrivalCalls == 4

\* a line item of a delivery: fault tells what the loop body cannot do with
\* it -- "quantity": int(item.get("quantity")) raises ValueError,
\* "unit_cost": float(item.get("unit_cost")) raises ValueError,
\* "not_mapping": item.get raises AttributeError, "none": it converts
LineItem(name, quantity, unit_cost, fault) ==
    [name |-> name, size |-> "small", quantity |-> quantity, unit_cost |-> unit_cost,
     fault |-> fault]

RECURSIVE AddLineItemsOrRaise(_, _, _, _, _)
\* the loop over one delivery's line items (process_arrivals, inner for)
\* with its conversions: the storage after the lines that were reached, the
\* delivery's cost, whether add_items was called and whether a line raised
AddLineItemsOrRaise(st, lines, i, cost, added) ==
    IF i > Len(lines) THEN [storage |-> st, cost |-> cost, added |-> added, raised |-> FALSE]
    ELSE LET item == lines[i] IN
         IF item.fault # "none"
         THEN [storage |-> st, cost |-> cost, added |-> added, raised |-> TRUE]
         ELSE IF item.quantity <= 0 \/ item.name = ""
         THEN AddLineItemsOrRaise(st, lines, i + 1, cost, added)
         ELSE Only({AddLineItemsOrRaise(r.storage, lines, i + 1, cost + r.ret, TRUE) :
                       r \in {add_items(st, item.name, item.size, item.quantity,
                                        item.unit_cost)}})

RECURSIVE ArrivalsLoopOrRaise(_, _, _, _, _)
\* the loop over pending_deliveries (process_arrivals, outer for) up to the
\* first exception; acc is [storage, remaining, total_cost, added, raised],
\* added the references of the deliveries add_items was called for.
\* on_arrival is "None", "sends" (returns) or "raises"
ArrivalsLoopOrRaise(pending, i, current_time, on_arrival, acc) ==
    IF i > Len(pending) THEN acc
    ELSE LET delivery == pending[i] IN
         IF delivery.arrival_time <= current_time
         THEN Only({IF x.r.raised THEN [x.after EXCEPT !.raised = TRUE]
                    ELSE IF on_arrival = "raises"
                    THEN [x.after EXCEPT !.total_cost = @ + x.r.cost, !.raised = TRUE]
                    ELSE ArrivalsLoopOrRaise(pending, i + 1, current_time, on_arrival,
                             [x.after EXCEPT !.total_cost = @ + x.r.cost]) :
                    x \in {[r |-> r,
                            after |-> [acc EXCEPT
                                         !.storage = r.storage,
                                         !.added = IF r.added
                                                   THEN Append(@, delivery.reference)
                                                   ELSE @]] :
                           r \in {AddLineItemsOrRaise(acc.storage, delivery.items, 1, 0,
                                                      FALSE)}}})
         ELSE ArrivalsLoopOrRaise(pending, i + 1, current_time, on_arrival,
                  [acc EXCEPT !.remaining = Append(@, delivery)])

\* StorageSystem.process_arrivals(current_time, on_arrival): the new
\* storage, whether the call raised, the returned total cost and the
\* references of the deliveries whose items it added. pending_deliveries is
\* assigned after the loop only
process_arrivals_or_raise(st, current_time, on_arrival) ==
    IF Len(st.pending_deliveries) = 0
    THEN [storage |-> st, raised |-> FALSE, ret |-> 0, added |-> <<>>]
    ELSE Only({IF acc.raised
               THEN [storage |-> acc.storage, raised |-> TRUE, ret |-> 0,
                     added |-> acc.added]
               ELSE [storage |-> [acc.storage EXCEPT !.pending_deliveries = acc.remaining],
                     raised |-> FALSE, ret |-> acc.total_cost, added |-> acc.added] :
               acc \in {ArrivalsLoopOrRaise(st.pending_deliveries, 1, current_time,
                                            on_arrival,
                                            [storage |-> st, remaining |-> <<>>,
                                             total_cost |-> 0, added |-> <<>>,
                                             raised |-> FALSE])}})

\* the line-item lists the arrivals driver schedules: one that converts,
\* and lists whose first or second line does not
ArrivalItems ==
    {<<LineItem("cola", 2, 100, "none")>>}
    \cup {<<LineItem("cola", 2, 100, "none"), LineItem("chips", 1, 50, ft)>> :
            ft \in {"quantity", "unit_cost", "not_mapping"}}
    \cup {<<LineItem("chips", 1, 50, "quantity")>>}

\* the on_arrival arguments of the driver: None, a callback that returns,
\* a callback that raises
ArrivalCallbacks == {"None", "sends", "raises"}

\* the arrivals driver's history: its calls, the last operation, whether it
\* raised, and the references of the deliveries whose items were added to
\* storage, over all process_arrivals calls
ArrivalsInit ==
    [calls |-> 0, op |-> "start", raised |-> FALSE, scheduled |-> 0, added |-> <<>>,
     before |-> StorageSystemInit]

InitArrivals ==
    /\ sim = SimInit(<<7, 10>>, FALSE)
    /\ agent = AgentInit
    /\ email = EmailSystemInit
    /\ db = [rows |-> log_state(<<>>, AnchorHour, STARTING_BALANCE).rows]
    /\ loop = [max_messages |-> 0, status |-> "running", error |-> FALSE]
    /\ obs = ObsInit
    /\ storage = StorageSystemInit
    /\ drv = ArrivalsInit
    /\ inp = InpInit
    /\ machine = VendingMachineInit
    /\ mdrv = MdrvInit

\* storage.schedule_delivery(current_time, items, days_until_delivery,
\* supplier, reference) with a reference of its own for every delivery
ArSchedule ==
    /\ drv.calls < MaxArrivalCalls
    /\ \E items \in ArrivalItems, N \in 0..1 :
          LET r == schedule_delivery(storage, AnchorHour, items, N, "VendCorp",
                                     drv.scheduled + 1) IN
          /\ storage' = r.storage
          /\ drv' = [drv EXCEPT !.calls = @ + 1, !.op = "schedule_delivery",
                                !.raised = FALSE, !.scheduled = @ + 1,
                                !.before = storage]
    /\ UNCHANGED <<sim, agent, email, db, loop, obs, inp, machine, mdrv>>

\* storage.process_arrivals(current_time, on_arrival), the caller catching
\* what it raises
ArProcess ==
    /\ drv.calls < MaxArrivalCalls
    /\ \E d \in 0..1, on_arrival \in ArrivalCallbacks :
          \E r \in {process_arrivals_or_raise(storage, AnchorHour + d * HoursPerDay,
                                              on_arrival)} :
             /\ storage' = r.storage
             /\ drv' = [drv EXCEPT !.calls = @ + 1, !.op = "process_arrivals",
                                   !.raised = r.raised, !.added = @ \o r.added,
                                   !.before = storage]
    /\ UNCHANGED <<sim, agent, email, db, loop, obs, inp, machine, mdrv>>

NextArrivals == ArSchedule \/ ArProcess

SpecArrivals == InitArrivals /\ [][NextArrivals]_vars

(***************************************************************************)
(* An EmailSystem driven through send_email, receive_email, the supplier   *)
(* replies of a rollover and the read_email tool, in any order             *)
(***************************************************************************)
\* most calls the inbox driver makes on one EmailSystem
MaxInboxCalls == 6

\* the supplier model's answers without a tool call
TextCompletions == {c \in SupplierCompletions : Len(c.tool_calls) = 0}

\* the inbox driver's history: its calls, the last operation, the blocks of
\* the last read_email result, the blocks of all read_email results so far
\* in the order shown, the number of read_email calls that showed emails,
\* the ids of the sent emails answered by generate_supplier_responses so
\* far, the number of replies of its last call, and the mailbox before the
\* last call
InboxInit ==
    [calls |-> 0, op |-> "start", result |-> ToolResult("", <<>>), shown |-> <<>>,
     reads |-> 0, answered |-> <<>>, replies |-> 0, before |-> EmailSystemInit]

InitInbox ==
    /\ sim = SimInit(<<7, 10>>, FALSE)
    /\ agent = AgentInit
    /\ email = EmailSystemInit
    /\ db = [rows |-> log_state(<<>>, AnchorHour, STARTING_BALANCE).rows]
    /\ loop = [max_messages |-> 0, status |-> "running", error |-> FALSE]
    /\ obs = ObsInit
    /\ storage = StorageSystemInit
    /\ drv = InboxInit
    /\ inp = InpInit
    /\ machine = VendingMachineInit
    /\ mdrv = MdrvInit

\* the send_email tool
IbSend ==
    /\ drv.calls < MaxInboxCalls
    /\ \E r \in Recipients, sj \in Subjects :
          LET t == send_email(email, r, sj, [text |-> "order", tool_msg |-> ""]) IN
          /\ email' = t.email
          /\ drv' = [drv EXCEPT !.calls = @ + 1, !.op = "send_email", !.before = email]
    /\ UNCHANGED <<sim, agent, db, loop, obs, storage, inp, machine, mdrv>>

\* email_system.receive_email(sender, subject, body)
IbReceive ==
    /\ drv.calls < MaxInboxCalls
    /\ \E r \in Recipients, sj \in Subjects :
          /\ email' = EmailReceive(email, r, sj, [text |-> "notice", tool_msg |-> ""],
                                   "supplier_response")
          /\ drv' = [drv EXCEPT !.calls = @ + 1, !.op = "receive_email", !.before = email]
    /\ UNCHANGED <<sim, agent, db, loop, obs, storage, inp, machine, mdrv>>

\* email_system.generate_supplier_responses(simulation_ref), as a rollover
\* calls it
IbRespond ==
    /\ drv.calls < MaxInboxCalls
    /\ \E plan \in [1..Len(email.outbox) -> TextCompletions] :
          \E g \in {generate_supplier_responses(sim, email, plan)} :
             /\ email' = g.email
             /\ drv' = [drv EXCEPT !.calls = @ + 1, !.op = "generate_supplier_responses",
                                   !.before = email, !.replies = g.replies,
                                   !.answered = @ \o [i \in 1..Len(g.log) |-> g.log[i].sent]]
    /\ UNCHANGED <<sim, agent, db, loop, obs, storage, inp, machine, mdrv>>

\* the read_email tool
IbRead ==
    /\ drv.calls < MaxInboxCalls
    /\ LET t == read_email(email) IN
          /\ email' = t.email
          /\ drv' = [drv EXCEPT !.calls = @ + 1, !.op = "read_email", !.before = email,
                                !.result = t.result,
                                !.shown = @ \o t.result.blocks,
                                !.reads = @ + (IF Len(t.result.blocks) > 0 THEN 1 ELSE 0)]
    /\ UNCHANGED <<sim, agent, db, loop, obs, storage, inp, machine, mdrv>>

NextInbox == IbSend \/ IbReceive \/ IbRespond \/ IbRead

SpecInbox == InitInbox /\ [][NextInbox]_vars

(***************************************************************************)
(* Claims about the EmailSystem                                            *)
(***************************************************************************)
\* the ids of a mailbox, in order of creation
MailboxIds(box) == [i \in 1..Len(box) |-> box[i].id]

\* C11: every email's id differs from every other id assigned, and within
\* the outbox and within the inbox the numeric suffix of the ids is
\* strictly increasing in order of creation.
C11_IdsUnique ==
    LET ids == MailboxIds(email.outbox) \o MailboxIds(email.inbox) IN
    /\ \A i, j \in 1..Len(ids) : i # j => ids[i] # ids[j]
    /\ \A i \in 1..Len(email.outbox) :
          /\ email.outbox[i].id.prefix = "sent"
          /\ \A j \in 1..(i - 1) :
                IdNumber(email.outbox[j].id) < IdNumber(email.outbox[i].id)
    /\ \A i \in 1..Len(email.inbox) :
          /\ email.inbox[i].id.prefix = "recv"
          /\ \A j \in 1..(i - 1) :
                IdNumber(email.inbox[j].id) < IdNumber(email.inbox[i].id)

\* both mailboxes hold several emails and the counter has reached two
\* digits
C11_Witness ==
    /\ Len(email.outbox) >= 2 /\ Len(email.inbox) >= 2
    /\ email.email_counter >= 10
    /\ email.inbox[Len(email.inbox)].id = FormatId("recv", email.email_counter)

\* box2 is box1 with emails appended at the end
Extends(box1, box2) ==
    Len(box2) >= Len(box1) /\ SubSeq(box2, 1, Len(box1)) = box1

\* one step of the mailboxes: the outbox only grows at the end; the inbox
\* only grows at the end once the read flags are set aside, and no read
\* flag goes back to false
AppendOnlyStep ==
    /\ Extends(email.outbox, email'.outbox)
    /\ Len(email'.inbox) >= Len(email.inbox)
    /\ \A i \in 1..Len(email.inbox) :
          /\ [email'.inbox[i] EXCEPT !.read = email.inbox[i].read] = email.inbox[i]
          /\ email.inbox[i].read => email'.inbox[i].read

\* C12: in every step of a run the inbox and the outbox only grow at the
\* end, no email is removed or reordered, no field of an existing email
\* other than read changes, and read only changes from false to true.
C12_AppendOnly == [][AppendOnlyStep]_vars

\* a read_email that flipped the flags of two replies while two sent
\* emails stay in the outbox
C12_Witness ==
    /\ obs.tool = "read_email" /\ obs.unread_before = 0 /\ obs.replies = 2
    /\ Len(email.outbox) = 2 /\ Len(email.inbox) = 2
    /\ \A i \in 1..Len(email.inbox) : email.inbox[i].read

\* the outbox as generate_supplier_responses saw it in the last action: the
\* outbox without the email the action's own send_email added afterwards
OutboxAtSynthesis ==
    SubSeq(email.outbox, 1,
           Len(email.outbox) - (IF obs.tool = "send_email" /\ obs.success THEN 1 ELSE 0))

\* email sent has a reply in the inbox: subject "Re: " + its subject, sender
\* its recipient
HasReply(sent) ==
    \E k \in 1..Len(email.inbox) :
        /\ email.inbox[k].subject = RePrefix \o sent.subject
        /\ email.inbox[k].sender = sent.recipient

\* C13: after generate_supplier_responses has run (in a rollover), every
\* email of the outbox has a reply in the inbox whose subject is "Re: "
\* followed by its subject and whose sender is its recipient, for all
\* subjects the agent may choose.
C13_AllAnswered ==
    obs.rolled =>
        \A i \in 1..Len(OutboxAtSynthesis) : HasReply(OutboxAtSynthesis[i])

\* C14: every reply appended for a sent email whose inference call failed
\* carries the fixed acknowledgment body (and generate_supplier_responses
\* hands control back to handle_new_day).
C14_FailureGetsAck ==
    \A i \in 1..Len(obs.reply_log) :
        obs.reply_log[i].failed => obs.reply_log[i].body = ACK_FALLBACK

(***************************************************************************)
(* Claims about the agent tick with any inference collaborator, checked    *)
(* under SpecAgent                                                         *)
(***************************************************************************)
\* the tool calls litellm.completion returned in the last action
ReturnedCalls == inp.completion.tool_calls

\* C15: in each agent tick at most one tool function is executed; when the
\* collaborator returns several tool calls the executed one is the first
\* of the list, and the later ones leave the simulation untouched (a later
\* wait_for_next_day does not move time, a later read_email marks nothing
\* read).
C15_FirstCallWins ==
    /\ obs.executed <= 1
    /\ (obs.n > 0 /\ Len(ReturnedCalls) > 0) => obs.tool = ReturnedCalls[1].name
    /\ (obs.n > 0 /\ Len(ReturnedCalls) > 1) =>
          /\ (ReturnedCalls[1].name # "wait_for_next_day"
                 /\ ReturnedCalls[2].name = "wait_for_next_day")
                => sim.current_time = obs.time_at_start
          /\ (ReturnedCalls[1].name # "read_email"
                 /\ ReturnedCalls[2].name = "read_email")
                => Len(get_unread_emails(email)) = obs.unread_before + obs.replies

\* the collaborator returned wait_for_next_day followed by read_email while
\* a reply was unread: time moved, the reply stays unread
C15_Witness ==
    /\ Len(ReturnedCalls) = 2
    /\ ReturnedCalls[1].name = "wait_for_next_day"
    /\ ReturnedCalls[2].name = "read_email"
    /\ obs.executed = 1 /\ obs.tool = "wait_for_next_day"
    /\ sim.current_time > obs.time_at_start
    /\ Len(get_unread_emails(email)) > 0

\* start_simulation has left its loop
Terminated == loop.status = "complete" \/ ~BudgetLeft(sim, loop.max_messages)

\* max(max_messages, 0)
ActionBudget == IF loop.max_messages > 0 THEN loop.max_messages ELSE 0

\* C16: start_simulation(max_messages) leaves its loop for every
\* max_messages and every behaviour of the inference collaborator;
\* message_count never exceeds max(max_messages, 0); and when no action
\* raised, exactly that many actions were run.
C16_Terminates ==
    /\ <>Terminated
    /\ [](sim.message_count <= ActionBudget)
    /\ []((Terminated /\ ~loop.error) => sim.message_count = ActionBudget)

\* a run of three or more actions, none of which raised, has ended
C16_Witness ==
    /\ loop.status = "complete" /\ ~loop.error
    /\ loop.max_messages >= 3 /\ sim.message_count = loop.max_messages

\* the last action's model response carried a tool call, the one run_agent
\* handed to execute_tool
CalledTool == obs.n > 0 /\ Len(ReturnedCalls) > 0

\* the tool of the last action left the simulation (time, balance,
\* inventory) and the mailboxes as the rollover part of the action left them
ToolChangedNothing == sim = obs.before_tool.sim /\ email = obs.before_tool.email

\* C17: a tool call naming a tool outside TOOLS_FUNCTIONS is answered with
\* the "Unknown tool" error annotated onto the response, leaves time,
\* balance, mailboxes and inventory unchanged, and the loop goes on (the
\* action does not end the run with an error).
C17_UnknownToolContinues ==
    (CalledTool /\ ReturnedCalls[1].name \notin TOOLS_FUNCTIONS
        /\ ReturnedCalls[1].args = "valid") =>
        /\ obs.result.kind = "Unknown tool" /\ ~obs.success
        /\ ToolChangedNothing
        /\ ~loop.error

\* C18: a call of a known tool with malformed arguments (not JSON, or
\* argument names the function does not take) is answered with a tool
\* error annotated onto the response, changes nothing in the simulation,
\* and the loop goes on (the action does not end the run with an error).
C18_MalformedArgsContinue ==
    (CalledTool /\ ReturnedCalls[1].name \in TOOLS_FUNCTIONS
        /\ ReturnedCalls[1].args # "valid") =>
        /\ obs.result.kind = "Tool execution failed" /\ ~obs.success
        /\ ToolChangedNothing
        /\ ~loop.error

\* C19: no model response ends the run early: for every result of the
\* inference collaborator VendingMachineAgent.run_agent returns normally,
\* and a run that has left its loop has run max(max_messages, 0) actions
\* (without the state log, whose own failure is not the response's doing).
C19_NoResponseEndsRun ==
    /\ ~obs.agent_raised
    /\ (Terminated /\ ~sim.store_state) => sim.message_count = ActionBudget

(***************************************************************************)
(* Claims about the vending machine, checked under SpecMachine             *)
(***************************************************************************)
\* 0 <= quantity <= max_capacity, a present item has the slot's size, and
\* an empty slot holds no item
SlotOk(slot) ==
    /\ 0 <= slot.quantity /\ slot.quantity <= slot.max_capacity
    /\ slot.item # NoItem => slot.item.size = slot.size_type
    /\ slot.quantity = 0 => slot.item = NoItem

\* C20: after any sequence of stock_item and sell_item calls (any slot id,
\* any item, any integer quantity) every slot has 0 <= quantity <=
\* max_capacity, a present item of the slot's size_type, and no item when
\* its quantity is 0.
C20_SlotInvariant == \A id \in DOMAIN machine.slots : SlotOk(machine.slots[id])

\* the last call was stock_item / sell_item
StockCalled == mdrv.op = "stock_item"
SellCalled == mdrv.op = "sell_item"

\* the slot the last call named, before and after the call (for a slot id
\* that is a key of slots)
SlotBefore == mdrv.before.slots[mdrv.slot_id]
SlotAfter == machine.slots[mdrv.slot_id]

\* every slot but the one the last call named is as it was
OtherSlotsUnchanged ==
    /\ DOMAIN machine.slots = DOMAIN mdrv.before.slots
    /\ \A id \in DOMAIN machine.slots :
          id # mdrv.slot_id => machine.slots[id] = mdrv.before.slots[id]

\* the four reasons for which stock_item refuses: unknown slot id, size
\* mismatch, another item's name in the slot, capacity exceeded
StockRefused ==
    \/ mdrv.slot_id \notin SlotIds
    \/ SlotBefore.size_type # mdrv.item.size
    \/ (SlotBefore.item # NoItem /\ SlotBefore.item.name # mdrv.item.name)
    \/ SlotBefore.quantity + mdrv.quantity > SlotBefore.max_capacity

\* C21: stock_item returns False and leaves every slot unchanged when the
\* slot id is unknown, the sizes differ, the slot holds an item of another
\* name, or quantity + qty would exceed max_capacity; otherwise it returns
\* True, adds qty to that slot's quantity and changes no other slot.
C21_StockContract ==
    StockCalled =>
        IF StockRefused
        THEN mdrv.ret = "False" /\ machine = mdrv.before
        ELSE /\ mdrv.ret = "True"
             /\ SlotAfter.quantity = SlotBefore.quantity + mdrv.quantity
             /\ SlotAfter.item = mdrv.item
             /\ OtherSlotsUnchanged

\* a second stock_item call of the same item accumulated onto a slot that
\* already held some, filling it exactly to max_capacity
C21_Witness ==
    /\ StockCalled /\ mdrv.ret = "True" /\ mdrv.quantity > 0
    /\ SlotBefore.quantity > 0 /\ SlotBefore.item = mdrv.item
    /\ SlotAfter.quantity = SlotAfter.max_capacity

\* C22: sell_item on a slot holding units removes exactly min(qty,
\* quantity) of them (never more than the slot holds), returns the item and
\* the units removed, and clears the item when the quantity reaches zero;
\* on an empty or unknown slot it returns None and changes nothing.
C22_SellContract ==
    SellCalled =>
        IF mdrv.slot_id \in SlotIds /\ SlotBefore.quantity > 0
        THEN /\ mdrv.ret = "sold"
             /\ mdrv.sold = (IF mdrv.quantity <= SlotBefore.quantity
                             THEN mdrv.quantity ELSE SlotBefore.quantity)
             /\ mdrv.sold <= SlotBefore.quantity
             /\ mdrv.ret_item = SlotBefore.item /\ mdrv.ret_item # NoItem
             /\ SlotAfter.quantity = SlotBefore.quantity - mdrv.sold
             /\ SlotAfter.item = (IF SlotAfter.quantity = 0 THEN NoItem
                                  ELSE SlotBefore.item)
             /\ OtherSlotsUnchanged
        ELSE mdrv.ret = "None" /\ machine = mdrv.before

\* sell_item was asked for more than the slot held: it sold what was there
\* and cleared the slot
C22_Witness ==
    /\ SellCalled /\ mdrv.ret = "sold"
    /\ mdrv.quantity > SlotBefore.quantity /\ SlotBefore.quantity > 0
    /\ mdrv.sold = SlotBefore.quantity
    /\ SlotAfter.quantity = 0 /\ SlotAfter.item = NoItem

(***************************************************************************)
(* Claims about add_items and remove_items, checked under SpecLedger       *)
(***************************************************************************)
\* avg_unit_cost times quantity, as an exact fraction (cents)
StoredValue(record) ==
    Frac(record.avg_unit_cost[1] * record.quantity, record.avg_unit_cost[2])

\* C23: weighted-average costing: for every sequence of add_items and
\* remove_items calls, avg_unit_cost times quantity of each stored product
\* is the sum of qty x unit_cost over the additions made since its quantity
\* was last zero, scaled by the share still in storage; a product added
\* when none of it is stored starts at the batch's unit_cost; add_items
\* returns qty x unit_cost.
C23_WeightedAverage ==
    /\ \A name \in DOMAIN storage.items :
          StoredValue(storage.items[name]) = drv.value[name]
    /\ drv.op = "add_items" =>
          /\ drv.ret = drv.quantity * drv.unit_cost
          /\ (get_quantity(drv.before, drv.name) = 0 /\ drv.quantity > 0) =>
                storage.items[drv.name].avg_unit_cost = Frac(drv.unit_cost, 1)

\* the product the last remove_items call named was stored in at least the
\* quantity asked for
RemoveCovered ==
    /\ drv.name \in DOMAIN drv.before.items
    /\ drv.quantity <= drv.before.items[drv.name].quantity

\* every product but the one the last call named, and the pending list, are
\* as they were
OtherRecordsUnchanged ==
    /\ storage.pending_deliveries = drv.before.pending_deliveries
    /\ DOMAIN storage.items \ {drv.name} = DOMAIN drv.before.items \ {drv.name}
    /\ \A n \in DOMAIN storage.items \ {drv.name} : storage.items[n] = drv.before.items[n]

\* C24: remove_items(name, qty) returns False and leaves storage unchanged
\* when the product is absent or qty exceeds the stored quantity; otherwise
\* it returns True, decreases only that product's quantity by qty, and
\* deletes the record when the quantity reaches zero.
C24_RemoveContract ==
    drv.op = "remove_items" =>
        IF RemoveCovered
        THEN /\ drv.ok
             /\ get_quantity(storage, drv.name)
                   = drv.before.items[drv.name].quantity - drv.quantity
             /\ IF drv.before.items[drv.name].quantity - drv.quantity = 0
                THEN drv.name \notin DOMAIN storage.items
                ELSE storage.items[drv.name] =
                        [drv.before.items[drv.name] EXCEPT
                            !.quantity = @ - drv.quantity]
             /\ OtherRecordsUnchanged
        ELSE ~drv.ok /\ storage = drv.before

\* remove_items took the last units of a product, whose record is gone,
\* while another product stays stored
C24_Witness ==
    /\ drv.op = "remove_items" /\ drv.ok /\ drv.quantity > 0
    /\ drv.name \in DOMAIN drv.before.items
    /\ drv.name \notin DOMAIN storage.items
    /\ DOMAIN storage.items # {}

(***************************************************************************)
(* Claims about process_arrivals, checked under SpecStorage                *)
(***************************************************************************)
\* the last call was process_arrivals
ProcessCalled == drv.op = "process_arrivals"

\* delivery d was due at the last call's current_time
Due(d) == d.arrival_time <= drv.current_time

\* no delivery pending before the last call was due
NothingDue ==
    \A i \in 1..Len(drv.before.pending_deliveries) :
        ~Due(drv.before.pending_deliveries[i])

\* the last call changed nothing, returned zero and invoked no callback
WasNoOp == storage = drv.before /\ drv.ret = 0 /\ drv.notices = 0

\* C25: process_arrivals is a no-op when no delivery is due (current_time
\* before every pending arrival_time, or nothing pending): zero cost,
\* storage records and pending list unchanged, no callback; and a second
\* call with the same current_time directly after a first changes nothing
\* and returns zero.
C25_NoOpWhenNothingDue ==
    ProcessCalled =>
        /\ NothingDue => WasNoOp
        /\ (drv.prev_op = "process_arrivals" /\ drv.prev_time = drv.current_time)
              => WasNoOp

\* process_arrivals was called twice with the same current_time: the first
\* call had delivered, the second found nothing due and changed nothing
C25_Witness ==
    /\ ProcessCalled /\ drv.prev_op = "process_arrivals"
    /\ drv.prev_time = drv.current_time
    /\ DOMAIN storage.items # {}
    /\ WasNoOp

RECURSIVE LineUnits(_, _)
\* the units of product name in the line items lines (those with a
\* quantity above 0)
LineUnits(lines, name) ==
    IF Len(lines) = 0 THEN 0
    ELSE (IF lines[1].name = name /\ lines[1].quantity > 0 THEN lines[1].quantity ELSE 0)
         + LineUnits(Tail(lines), name)

RECURSIVE LineCost(_)
\* quantity x unit_cost summed over the line items lines
LineCost(lines) ==
    IF Len(lines) = 0 THEN 0
    ELSE (IF lines[1].quantity > 0 THEN lines[1].quantity * lines[1].unit_cost ELSE 0)
         + LineCost(Tail(lines))

RECURSIVE DueUnits(_, _)
\* the units of product name in the deliveries of pending that were due
DueUnits(pending, name) ==
    IF Len(pending) = 0 THEN 0
    ELSE (IF Due(pending[1]) THEN LineUnits(pending[1].items, name) ELSE 0)
         + DueUnits(Tail(pending), name)

RECURSIVE DueCost(_)
\* the cost of the deliveries of pending that were due
DueCost(pending) ==
    IF Len(pending) = 0 THEN 0
    ELSE (IF Due(pending[1]) THEN LineCost(pending[1].items) ELSE 0)
         + DueCost(Tail(pending))

NotDue(d) == ~Due(d)

\* the product names of the driver's line items
DriverNames == {"cola", "chips"}

C30_StorageToolSucceeds ==
    (obs.n > 0 /\ obs.tool = "check_storage_quantities") =>
        /\ obs.success /\ obs.result.kind = "storage report"
        /\ ToolChangedNothing

\* a sales function was evaluated at the prices p1 < p2
SalesCalled == drv.op \in {"calculate_item_sales", "calculate_item_final_sales"}

\* both prices are above the reference price and the elasticity is negative
AboveReference ==
    /\ drv.metrics.price_elasticity < 0
    /\ drv.p1 > drv.metrics.reference_price
    /\ drv.p2 > drv.p1

\* C27: calculate_item_sales and calculate_item_final_sales return a value
\* >= 0 for every price, every parsed metric triple and every multiplier
\* combination, and for negative elasticity and fixed multipliers the value
\* at p2 is no greater than at p1 when reference_price < p1 < p2
C27_MonotoneNonNegative ==
    SalesCalled =>
        /\ drv.r1.raised = "none" /\ drv.r1.value >= 0
        /\ drv.r2.raised = "none" /\ drv.r2.value >= 0
        /\ AboveReference => drv.r2.value <= drv.r1.value

\* calculate_choice_multiplier was evaluated at drv.unique_products
ChoiceCalled == drv.op = "calculate_choice_multiplier"

\* the product counts at or next to the optimal variety
NearOptimal == {OPTIMAL_VARIETY - 1, OPTIMAL_VARIETY, OPTIMAL_VARIETY + 1}

\* C28: calculate_choice_multiplier(n) is at least 0.5 for every n >= 0,
\* equals 0.5 at n = 0 and at the largest count, and no count gives more
\* than the best of the counts at or next to 10
C28_ChoiceMultiplier ==
    ChoiceCalled =>
        /\ drv.choice >= CHOICE_FLOOR
        /\ drv.unique_products = 0 => drv.choice = CHOICE_FLOOR
        /\ drv.unique_products = MaxProducts => drv.choice = CHOICE_FLOOR
        /\ \E m \in NearOptimal : calculate_choice_multiplier(m) >= drv.choice
        /\ drv.unique_products = OPTIMAL_VARIETY =>
              \A m \in 0..MaxProducts : calculate_choice_multiplier(m) <= drv.choice

\* the multiplier of a large count, where only the floor keeps it at 0.5
C28_Witness ==
    /\ ChoiceCalled
    /\ drv.unique_products > OPTIMAL_VARIETY
    /\ raw_multiplier(drv.unique_products) < CHOICE_FLOOR
    /\ drv.choice = CHOICE_FLOOR

\* a settlement was made of the machine drv.before
Settled == drv.op = "calculate_total_sales_and_report"

\* the units the settlement removed from a slot
Removed(id) == drv.before.slots[id].quantity - machine.slots[id].quantity

\* the sum of Removed(id) x price over the slots from the i-th on
RECURSIVE RemovedValue(_)
RemovedValue(i) ==
    IF i > Len(SlotOrder) THEN 0
    ELSE Removed(SlotOrder[i]) * drv.before.slots[SlotOrder[i]].item.price
            + RemovedValue(i + 1)

\* C29: a settlement returns; it takes from every slot at least nothing and
\* at most what the slot holds, so that no quantity goes below zero; and the
\* revenue it returns is the sum over the slots of the units removed times
\* the item's price
C29_Settlement ==
    Settled =>
        /\ drv.raised = "none"
        /\ \A id \in DOMAIN machine.slots :
              /\ Removed(id) >= 0
              /\ Removed(id) <= Max2(0, drv.before.slots[id].quantity)
              /\ drv.before.slots[id].quantity >= 0 => machine.slots[id].quantity >= 0
        /\ drv.total_sales = RemovedValue(1)

\* the sum of the token estimates of the entries of a window
RECURSIVE WindowTokens(_)
WindowTokens(window) ==
    IF window = <<>> THEN 0
    ELSE estimate_tokens(EntryTextLen(Head(window).text)) + WindowTokens(Tail(window))

\* the entries of the window are the last entries added, in order
IsSuffixOfAdded ==
    /\ Len(agent.context_window) <= Len(drv.added)
    /\ \A i \in 1..Len(agent.context_window) :
          agent.context_window[i].text
              = drv.added[Len(drv.added) - Len(agent.context_window) + i]

\* C31: after every _add_to_context_window call current_context_tokens is
\* the sum of the token estimates of the entries in the window and at most
\* max_context_tokens, and the window is a contiguous suffix of the entries
\* added so far
C31_BoundedWindow ==
    drv.op = "_add_to_context_window" =>
        /\ agent.current_context_tokens = WindowTokens(agent.context_window)
        /\ \A i \in 1..Len(agent.context_window) :
              agent.context_window[i].tokens
                  = estimate_tokens(EntryTextLen(agent.context_window[i].text))
        /\ agent.current_context_tokens <= agent.max_context_tokens
        /\ IsSuffixOfAdded

\* an entry was added that pushed out the oldest entry but not all of them
C31_Witness ==
    /\ drv.op = "_add_to_context_window"
    /\ Len(agent.context_window) >= 2
    /\ Len(agent.context_window) < Len(drv.added)
    /\ agent.context_window[Len(agent.context_window)].text = drv.added[Len(drv.added)]

\* conversation_history alternates user, assistant, starting with user
Alternates(history) ==
    \A i \in 1..Len(history) :
        history[i] = (IF i % 2 = 1 THEN "user" ELSE "assistant")

\* C32: at every tick boundary, also after a tick with a faulty tool call
\* or model response, conversation_history holds one user entry followed by
\* one assistant entry for each tick started
C32_TwoEntriesPerTick ==
    /\ Len(agent.conversation_history) = 2 * sim.message_count
    /\ Alternates(agent.conversation_history)

\* C33: after any sequence of add_items and remove_items calls with integer
\* quantities of either sign, every record of StorageSystem.items has a
\* quantity > 0
C33_PositiveQuantities ==
    \A name \in DOMAIN storage.items : storage.items[name].quantity > 0

\* the replies in the inbox
ResponsesInInbox == {k \in 1..Len(email.inbox) : email.inbox[k].email_type = "response"}

\* C34: across any number of generate_supplier_responses calls and any
\* interleaving of send_email calls, no sent email is answered twice
\* (drv.answered lists the id of the sent email of every reply generated so
\* far), every answered email is in the outbox, and the inbox never holds
\* more emails of type response than the outbox holds emails
C34_NoDuplicateReplies ==
    /\ \A i, j \in 1..Len(drv.answered) : i # j => drv.answered[i] # drv.answered[j]
    /\ \A i \in 1..Len(drv.answered) :
          \E k \in 1..Len(email.outbox) : email.outbox[k].id = drv.answered[i]
    /\ Cardinality(ResponsesInInbox) = Len(drv.answered)
    /\ Cardinality(ResponsesInInbox) <= Len(email.outbox)

\* a generate_supplier_responses call that found an email it had answered,
\* together with one sent since, and replied to the new one alone
C34_Witness ==
    /\ drv.op = "generate_supplier_responses" /\ drv.replies = 1
    /\ Len(drv.answered) = 2
    /\ Len(drv.before.outbox) = 2
    /\ Cardinality({k \in 1..Len(drv.before.inbox) :
                       drv.before.inbox[k].email_type = "response"}) = 1

\* C35: a process_arrivals call that raises part-way leaves storage such
\* that no delivery whose items were added is added again by a later call:
\* over all process_arrivals calls, no delivery's reference appears twice
\* among the deliveries whose items were added to storage
C35_NoDoubleDelivery ==
    \A i, j \in 1..Len(drv.added) : i # j => drv.added[i] # drv.added[j]

\* C36: with store_state set, every agent action appends exactly one row to
\* the log (the constructor's row and one row per action counted) and
\* log_state never raises, so the run never ends on the log: an action that
\* raised is one whose agent raised
C36_LogSideChannel ==
    (sim.store_state /\ ~obs.agent_raised) =>
        /\ Len(db.rows) = sim.message_count + 1
        /\ ~obs.raised
        /\ ~loop.error

\* current_time.month when the last action's rollover ran
MonthAtRollover == DateAfter(sim.start_date, DayOf(obs.time_at_start))[1]

\* C37: current_weather is always one of sunny, cloudy, rainy, snowy, and a
\* rollover in a month from March to November leaves the weather snowy
\* only if the weather of the day before was snowy
C37_SeasonalChain ==
    /\ sim.current_weather \in WeatherStates
    /\ (obs.rolled /\ MonthAtRollover \in 3..11 /\ sim.current_weather = "snowy")
          => obs.weather_before = "snowy"

\* a rollover in March that kept the snow of the day before
C37_Witness ==
    /\ obs.rolled /\ MonthAtRollover \in 3..11
    /\ obs.weather_before = "snowy" /\ sim.current_weather = "snowy"

\* C38: in every state of a run the balance is STARTING_BALANCE less
\* DAILY_FEE for each day passed, days_passed is at most message_count, and
\* the balance changes only inside a rollover: the tool of an action leaves
\* it as the rollover left it, and an action without a rollover leaves it
\* as it was
C38_BalanceAccounting ==
    /\ sim.balance = STARTING_BALANCE - DAILY_FEE * sim.days_passed
    /\ sim.days_passed <= sim.message_count
    /\ obs.n > 0 => sim.balance = obs.before_tool.sim.balance
    /\ (obs.n > 0 /\ ~obs.rolled) => sim.balance = obs.balance_before

\* a rollover that charged the fee, followed by a tool
C38_Witness ==
    /\ obs.rolled /\ obs.fees = 1
    /\ sim.days_passed >= 2
    /\ sim.balance = obs.balance_before - DAILY_FEE
    /\ obs.tool \in TOOLS_FUNCTIONS

\* C39: in every state of a run driven through the agent tools current_time
\* is 06:00 of some day and no action sets it back; wait_for_next_day
\* advances it by exactly one day and changes nothing else of the
\* simulation (no fee, no weather change); send_email, read_email and
\* check_storage_quantities leave current_time and balance unchanged
C39_AnchoredTime ==
    /\ sim.current_time % HoursPerDay = AnchorHour
    /\ obs.n > 0 =>
          /\ sim.current_time >= obs.time_at_start
          /\ obs.tool = "wait_for_next_day" =>
                sim = [obs.before_tool.sim EXCEPT !.current_time = @ + HoursPerDay]
          /\ obs.tool # "wait_for_next_day" =>
                /\ sim.current_time = obs.time_at_start
                /\ sim.current_time = obs.before_tool.sim.current_time
                /\ sim.balance = obs.before_tool.sim.balance

\* wait_for_next_day ran after the other tools had left the time alone
C39_Witness ==
    /\ obs.tool = "wait_for_next_day" /\ obs.prev_tool \in {"send_email", "read_email"}
    /\ sim.current_time = obs.time_at_start + HoursPerDay
    /\ sim.current_time >= AnchorHour + 2 * HoursPerDay

\* the blocks of the inbox emails that are read, in inbox order
BlocksOfRead == FormatBlocks(SelectSeq(email.inbox, LAMBDA e : e.read))

\* C40: for any interleaving of receive_email, supplier replies and
\* read_email calls, no email's block is in two read_email results; the
\* blocks shown so far are those of the read emails, in inbox order; and a
\* read_email call shows every email received since the read_email before
\* it, in inbox order, and leaves no email unread
C40_ShownOnce ==
    /\ \A i, j \in 1..Len(drv.shown) : i # j => drv.shown[i] # drv.shown[j]
    /\ drv.shown = BlocksOfRead
    /\ drv.op = "read_email" =>
          /\ drv.result.blocks = FormatBlocks(get_unread_emails(drv.before))
          /\ Len(get_unread_emails(email)) = 0
          /\ Len(get_unread_emails(drv.before)) = 0 => drv.result = NO_UNREAD

\* a read_email that showed two new emails, a supplier reply among them,
\* after an earlier read_email had shown others
C40_Witness ==
    /\ drv.op = "read_email" /\ drv.reads = 2
    /\ Len(drv.result.blocks) = 2 /\ Len(drv.shown) >= 3
    /\ \E k \in 1..Len(email.inbox) :
          /\ email.inbox[k].email_type = "response"
          /\ email.inbox[k].id = drv.result.blocks[1]
====
